---- MODULE Spec2Model ----
(***************************************************************************)
(* Model of the memory-trigger subsystem: the MemoryTriggerEngine          *)
(* (scripts/memory_trigger_engine.py), the DetectorRegistry                *)
(* (scripts/memory_detectors/__init__.py), the MemoryClient                *)
(* (scripts/memory_client.py): its token estimate, its availability cache  *)
(* and its retry loop, the ProjectTracker (scripts/project_tracker.py),    *)
(* and the ProjectSwitchDetector and the KeywordDetector built on them.    *)
(*                                                                         *)
(* Spec runs one engine after the other, SpecOverlap two at once, SpecFiles *)
(* builds engines from arbitrary files, SpecQuery calls query_memory with  *)
(* every query type, SpecClient drives the client alone, SpecMain follows  *)
(* main() of scripts/memory_trigger.py, SpecRegistry drives the registry,  *)
(* SpecLoad runs load_detectors on every detectors section, SpecProject    *)
(* drives the tracker and the project switch detector, SpecFormat formats  *)
(* and estimates results of every size, SpecReadOnly mixes the reading     *)
(* operations with the writing ones, SpecKeyword evaluates prompts with    *)
(* the KeywordDetector, SpecConfidence runs both detectors, SpecRetry      *)
(* drives _retry_operation, SpecResponses hands query_memory malformed     *)
(* responses, SpecGating compares two evaluate_triggers runs, SpecMatch    *)
(* applies projects_match to pairs of projects.                            *)
(*                                                                         *)
(* Timestamps (session_start, the timestamp of a triggers_fired entry) and *)
(* log output are left out: no modelled decision reads them.               *)
(***************************************************************************)
EXTENDS Integers, Sequences, FiniteSets, TLC

VARIABLES
    config,      \* engine.config, loaded once by __init__
    registry,    \* engine.registry._detectors, a list of detectors
    state,       \* engine.state, the in-memory session state
    file,        \* the state file: <<>> when absent, <<s>> when it holds s
    nextSid,     \* the next session id uuid4() hands out
    pending,     \* the caller's trigger_result: <<>> for None, else <<t>>
    disciplined, \* every query_memory so far got the result evaluate_triggers
                 \* had just returned, and _record_trigger had no other caller
    other,       \* engine.state of a second, overlapping invocation: <<>> or <<s>>
    saves,       \* number of _save_state calls made by _record_trigger so far
    config_file, \* the configuration file the constructor reads
    client,      \* engine.memory_client: the availability cache and the
                 \* number of memory-server operations it has issued
    now,         \* what time.time() returns
    registered,  \* the detectors handed to DetectorRegistry.register since
                 \* the last clear, oldest first (kept by SpecRegistry)
    active_project_file, \* ~/.claude/active-project.json of the
                 \* ProjectTracker: <<>> when absent, <<s>> when it holds s
    last         \* the last operation with its inputs and what it returned

vars ==
    <<config, registry, state, file, nextSid, pending, disciplined, other,
      saves, config_file, client, now, registered, active_project_file,
      last>>

---------------------------------------------------------------------------
(* Bounds of the model *)

\* the max_tokens_per_session the configuration sets, in tokens
MaxBudget == 3
\* longest triggers_fired list
MaxFired == 2
\* number of session ids uuid4() can hand out
MaxSessions == 2

(* Inputs *)

\* the detectors a caller may register: the second detector_p2 is a disabled
\* instance under the same name, with a priority ahead of detector_p1
DetectorPool ==
    { [name |-> "detector_p1", priority |-> 1, enabled |-> TRUE],
      [name |-> "detector_p2", priority |-> 2, enabled |-> TRUE],
      [name |-> "detector_p2", priority |-> 0, enabled |-> FALSE] }

DetectorNames == { d.name : d \in DetectorPool }

RECURSIVE Range(_)
Range(s) == IF s = <<>> THEN {} ELSE {Head(s)} \cup Range(Tail(s))

\* the estimated_tokens a detector puts in its TriggerResult
EstimatedTokens == {0, 2}

\* what one call of detector.evaluate(prompt, context) does: returns None,
\* raises, or returns a TriggerResult
EvaluateOutcomes ==
    { [kind |-> "none", triggered |-> FALSE, estimated_tokens |-> 0],
      [kind |-> "raise", triggered |-> FALSE, estimated_tokens |-> 0],
      [kind |-> "result", triggered |-> FALSE, estimated_tokens |-> 0] }
    \cup { [kind |-> "result", triggered |-> TRUE, estimated_tokens |-> e] :
             e \in EstimatedTokens }

\* the query type of the TriggerResult each detector builds
QueryTypeOf(name) ==
    IF name = "detector_p1" THEN "project_context" ELSE "mock_query"

\* the query_params of the TriggerResult each detector builds
QueryParamsOf(name) ==
    IF name = "detector_p1" THEN [project |-> "repo"] ELSE [query |-> "jwt"]

\* TriggerResult: the reason names the detector that built it
TriggerResult(name, o) ==
    [triggered |-> o.triggered,
     estimated_tokens |-> o.estimated_tokens,
     query_type |-> QueryTypeOf(name),
     query_params |-> QueryParamsOf(name),
     reason |-> name]

\* the TriggerResults a caller can hold
TriggerResults ==
    { TriggerResult(n, o) : n \in DetectorNames,
        o \in { x \in EvaluateOutcomes : x.triggered } }

\* lengths of json.dumps(result) for the dicts the client returns: 2 is "{}"
JsonLens == {2, 7, 12}

\* what the client's query method does: returns None, raises, or returns a dict
ClientOutcomes ==
    { [kind |-> "none", len |-> 0], [kind |-> "raise", len |-> 0] }
    \cup { [kind |-> "dict", len |-> n] : n \in JsonLens }

\* dict.get(k, default)
Get(d, k, default) == IF k \in DOMAIN d THEN d[k] ELSE default

\* a dict with no keys
EmptyDict == [k \in {} |-> 0]

\* file content json.load rejects
Unparsable == [unparsable |-> TRUE]

\* file content that is valid JSON but holds a list, not an object
JsonArray == [array |-> TRUE]

Parses(content) == "unparsable" \notin DOMAIN content

IsObject(value) == "array" \notin DOMAIN value

---------------------------------------------------------------------------
(* DetectorRegistry *)

get_detector(reg, name) ==
    LET hits == { i \in 1..Len(reg) : reg[i].name = name }
    IN IF hits = {} THEN <<>>
       ELSE <<reg[CHOOSE i \in hits : \A j \in hits : i <= j]>>

\* an unstable sort: d goes ahead of the elements of its own priority
RECURSIVE InsertByPriority_front(_, _)
InsertByPriority_front(sorted, d) ==
    IF sorted = <<>> THEN <<d>>
    ELSE IF Head(sorted).priority < d.priority
         THEN <<Head(sorted)>> \o InsertByPriority_front(Tail(sorted), d)
         ELSE <<d>> \o sorted

\* list.sort(key=priority) is stable: d goes behind every element whose
\* priority is not greater
RECURSIVE InsertByPriority(_, _)
InsertByPriority(sorted, d) ==
    IF sorted = <<>> THEN <<d>>
    ELSE IF Head(sorted).priority <= d.priority
         THEN <<Head(sorted)>> \o InsertByPriority(Tail(sorted), d)
         ELSE <<d>> \o sorted

RECURSIVE SortByPriority(_)
SortByPriority(s) ==
    IF s = <<>> THEN <<>>
    ELSE InsertByPriority(SortByPriority(SubSeq(s, 1, Len(s) - 1)), s[Len(s)])

\* register without the trailing sort: detectors stay in registration order
register_unsorted(reg, d) ==
    LET kept == IF get_detector(reg, d.name) # <<>>
                THEN SelectSeq(reg, LAMBDA x : x.name # d.name)
                ELSE reg
    IN Append(kept, d)

\* register that appends without removing the detector of the same name
register_appending(reg, d) == SortByPriority(Append(reg, d))

register(reg, d) ==
    LET kept == IF get_detector(reg, d.name) # <<>>
                THEN SelectSeq(reg, LAMBDA x : x.name # d.name)
                ELSE reg
    IN SortByPriority(Append(kept, d))

\* get_enabled_detectors that drops the disabled detectors from _detectors
detectors_after_get_enabled_filtered(reg) ==
    SelectSeq(reg, LAMBDA d : d.enabled)

\* self._detectors after get_enabled_detectors(): the list comprehension
\* builds the list it returns, _detectors is not assigned
detectors_after_get_enabled(reg) == reg

\* get_enabled_detectors without the filter on enabled
get_enabled_detectors_all(reg) == reg

\* get_enabled_detectors(): the detectors with enabled set, in the order
\* of _detectors
get_enabled_detectors(reg) == SelectSeq(reg, LAMBDA d : d.enabled)

---------------------------------------------------------------------------
(* MemoryClient *)

\* estimate_tokens that rounds the quotient up
estimate_tokens_ceiling(res) ==
    IF res.kind = "none" THEN 0 ELSE (res.len + 3) \div 4

\* estimate_tokens: len(json.dumps(result)) // 4, and 0 for None
estimate_tokens(res) ==
    IF res.kind = "none" THEN 0 ELSE res.len \div 4

\* Python truthiness of what the client returned: None and {} are falsy; a
\* malformed response is an object json.dumps serializes but whose entities
\* have no len(): a dict with entities null, or a list
Truthy(res) == res.kind \in {"dict", "malformed"} /\ res.len > 2

\* _is_available_cache_ttl, in seconds
is_available_cache_ttl == 60

\* retry_attempts when the mcp configuration does not set it
retry_attempts == 2

\* retry_backoff_seconds when the mcp configuration does not set it
retry_backoff == 1

\* a client that starts out with a cached answer
MemoryClient_cached == [cache |-> <<TRUE>>, cache_time |-> 0, issued |-> 0]

\* MemoryClient(config): nothing cached; issued counts the memory-server
\* operations (read_graph, search_nodes, open_nodes) the client has started
MemoryClient == [cache |-> <<>>, cache_time |-> 0, issued |-> 0]

\* what the transport under _call_mcp_tool does in one call: delivers a
\* result of some serialized length, times out, or fails otherwise
TransportOutcomes ==
    { [kind |-> "ok", len |-> 2], [kind |-> "ok", len |-> 12],
      [kind |-> "timeout", len |-> 0], [kind |-> "error", len |-> 0] }

\* one transport outcome for each attempt _retry_operation can make
TransportRuns == [1..(retry_attempts + 1) -> TransportOutcomes]

\* _call_mcp_tool with its except clauses turned into a raise
call_mcp_tool_raising(transport) ==
    IF transport.kind = "ok" THEN [kind |-> "dict", len |-> transport.len]
    ELSE [kind |-> "raise", len |-> 0]

\* _call_mcp_tool: the transport's result; TimeoutExpired and every other
\* Exception are caught and None is returned
call_mcp_tool(transport) ==
    IF transport.kind = "ok" THEN [kind |-> "dict", len |-> transport.len]
    ELSE [kind |-> "none", len |-> 0]

\* _retry_operation with a backoff that grows by retry_backoff each time
RECURSIVE retry_loop_linear(_, _, _, _, _)
retry_loop_linear(ops, attempts, backoff, attempt, sleeps) ==
    IF ops[attempt + 1].kind # "raise"
    THEN [result |-> ops[attempt + 1], attempts |-> attempt + 1,
          sleeps |-> sleeps]
    ELSE IF attempt < attempts
         THEN retry_loop_linear(ops, attempts, backoff, attempt + 1,
                                Append(sleeps, backoff * (attempt + 1)))
         ELSE [result |-> [kind |-> "none", len |-> 0],
               attempts |-> attempt + 1, sleeps |-> sleeps]

\* the for loop of _retry_operation from attempt index attempt on: ops[k] is
\* what the k-th call of operation() does
RECURSIVE retry_loop(_, _, _, _, _)
retry_loop(ops, attempts, backoff, attempt, sleeps) ==
    IF ops[attempt + 1].kind # "raise"
    THEN [result |-> ops[attempt + 1], attempts |-> attempt + 1,
          sleeps |-> sleeps]
    ELSE IF attempt < attempts
         THEN retry_loop(ops, attempts, backoff, attempt + 1,
                         Append(sleeps, backoff * (2 ^ attempt)))
         ELSE [result |-> [kind |-> "none", len |-> 0],
               attempts |-> attempt + 1, sleeps |-> sleeps]

retry_operation(ops, attempts, backoff) ==
    retry_loop(ops, attempts, backoff, 0, <<>>)

\* search_nodes, open_nodes and read_graph: _retry_operation around
\* _call_mcp_tool, run[k] being what the transport does in the k-th call
read_operation(run) ==
    retry_operation([k \in DOMAIN run |-> call_mcp_tool(run[k])],
                    retry_attempts, retry_backoff)

\* what search_nodes, open_nodes and read_graph can return
ReadResults == { read_operation(run).result : run \in TransportRuns }

\* is_available with the cache still valid at exactly the time to live
is_available_inclusive(cl, t, probe) ==
    IF cl.cache # <<>> /\ (t - cl.cache_time) <= is_available_cache_ttl
    THEN [returned |-> cl.cache[1], probed |-> FALSE, client |-> cl]
    ELSE [returned |-> probe.kind = "dict", probed |-> TRUE,
          client |-> [cache |-> <<probe.kind = "dict">>, cache_time |-> t,
                      issued |-> cl.issued + 1]]

\* is_available at time t: the cached answer while it is younger than the
\* time to live, else a read_graph probe whose outcome is cached with t;
\* probe is what read_graph() does
is_available(cl, t, probe) ==
    IF cl.cache # <<>> /\ (t - cl.cache_time) < is_available_cache_ttl
    THEN [returned |-> cl.cache[1], probed |-> FALSE, client |-> cl]
    ELSE [returned |-> probe.kind = "dict", probed |-> TRUE,
          client |-> [cache |-> <<probe.kind = "dict">>, cache_time |-> t,
                      issued |-> cl.issued + 1]]

---------------------------------------------------------------------------
(* MemoryTriggerEngine *)

load_state_fresh(sid) ==
    [session_id |-> sid, tokens_used |-> 0, triggers_fired |-> <<>>]

\* the budget check with < in place of <=
check_budget_strict(st, cfg, additional_tokens) ==
    (st.tokens_used + additional_tokens) < cfg.max_tokens_per_session

\* max_tokens_per_trigger of the built-in default configuration
default_max_tokens_per_trigger == 500

\* the budget check with the configured per-trigger cap enforced as well
check_budget_per_trigger(st, cfg, additional_tokens) ==
    /\ (Get(st, "tokens_used", 0) + additional_tokens)
          <= cfg.max_tokens_per_session
    /\ additional_tokens
          <= Get(cfg, "max_tokens_per_trigger", default_max_tokens_per_trigger)

\* _check_budget(additional_tokens): the session budget is the only limit
\* read
check_budget(st, cfg, additional_tokens) ==
    (Get(st, "tokens_used", 0) + additional_tokens)
        <= cfg.max_tokens_per_session

\* the loop without the try/except: a detector that raises ends the evaluation
RECURSIVE EvaluateLoopRaiseStops(_, _, _, _, _)
EvaluateLoopRaiseStops(dets, would, st, cfg, log) ==
    IF dets = <<>> THEN [result |-> <<>>, evaluated |-> log]
    ELSE LET d == Head(dets)
             o == would[d.name]
             log2 == Append(log, d.name)
         IN IF o.kind = "raise"
            THEN [result |-> <<>>, evaluated |-> log2]
            ELSE IF o.kind = "result" /\ o.triggered
                 THEN IF ~check_budget(st, cfg, o.estimated_tokens)
                      THEN EvaluateLoopRaiseStops(Tail(dets), would, st, cfg, log2)
                      ELSE [result |-> <<TriggerResult(d.name, o)>>,
                            evaluated |-> log2]
                 ELSE EvaluateLoopRaiseStops(Tail(dets), would, st, cfg, log2)

\* the for loop of evaluate_triggers over the enabled detectors
RECURSIVE EvaluateLoop(_, _, _, _, _)
EvaluateLoop(dets, would, st, cfg, log) ==
    IF dets = <<>> THEN [result |-> <<>>, evaluated |-> log]
    ELSE LET d == Head(dets)
             o == would[d.name]
             log2 == Append(log, d.name)
         IN IF o.kind = "raise"
            THEN EvaluateLoop(Tail(dets), would, st, cfg, log2)
            ELSE IF o.kind = "result" /\ o.triggered
                 THEN IF ~check_budget(st, cfg, o.estimated_tokens)
                      THEN EvaluateLoop(Tail(dets), would, st, cfg, log2)
                      ELSE [result |-> <<TriggerResult(d.name, o)>>,
                            evaluated |-> log2]
                 ELSE EvaluateLoop(Tail(dets), would, st, cfg, log2)

evaluate_triggers(reg, would, st, cfg) ==
    IF ~check_budget(st, cfg, 0)
    THEN [result |-> <<>>, evaluated |-> <<>>]
    ELSE EvaluateLoop(get_enabled_detectors(reg), would, st, cfg, <<>>)

\* _record_trigger that writes the estimate, not the actual cost, in the entry
record_trigger_estimated(st, t, actual_tokens) ==
    [st EXCEPT !.tokens_used = @ + actual_tokens,
               !.triggers_fired = Append(@, [detector |-> t.query_type,
                                             tokens |-> t.estimated_tokens,
                                             reason |-> t.reason])]

\* _record_trigger with = in place of +=
record_trigger_assign(st, t, actual_tokens) ==
    [st EXCEPT !.tokens_used = actual_tokens,
               !.triggers_fired = Append(@, [detector |-> t.query_type,
                                             tokens |-> actual_tokens,
                                             reason |-> t.reason])]

\* state['tokens_used'] = v, adding the key when the state has none
SetTokensUsed(st, v) ==
    IF "tokens_used" \in DOMAIN st THEN [st EXCEPT !.tokens_used = v]
    ELSE ("tokens_used" :> v) @@ st

record_trigger(st, t, actual_tokens) ==
    [SetTokensUsed(st, Get(st, "tokens_used", 0) + actual_tokens)
        EXCEPT !.triggers_fired = Append(@, [detector |-> t.query_type,
                                             tokens |-> actual_tokens,
                                             reason |-> t.reason])]

\* _record_trigger raises on a state that is no dict (.get) or has no
\* triggers_fired list (KeyError on the append)
record_trigger_raises(st) ==
    ~IsObject(st) \/ "triggers_fired" \notin DOMAIN st

\* the state a raising _record_trigger leaves behind: tokens_used is
\* assigned before the append fails, and _save_state is not reached
record_trigger_partial(st, actual_tokens) ==
    IF ~IsObject(st) THEN st
    ELSE SetTokensUsed(st, Get(st, "tokens_used", 0) + actual_tokens)

\* _save_state that leaves an existing file alone
save_state_keep(st, f) == IF f = <<>> THEN <<st>> ELSE f

\* _save_state: json.dump of the whole state over the file (mode 'w')
save_state(st, f) == <<st>>

\* _load_state that never reads the file
load_state_ignore(f, sid) == load_state_fresh(sid)

\* whether _load_state falls through to a new session: no file, or a file
\* json.load rejects
needs_new_session(f) == f = <<>> \/ ~Parses(f[1])

\* _load_state: the file's content verbatim, or a new session
load_state(f, sid) ==
    IF f = <<>> \/ ~Parses(f[1]) THEN load_state_fresh(sid) ELSE f[1]

\* the built-in budget of the default configuration
default_max_tokens_per_session == 5000

\* the configuration record holds the keys of the budget section and, when
\* the file has a logging section, its level
default_config == [max_tokens_per_session |-> default_max_tokens_per_session]

\* _load_config: the file's content verbatim, or the defaults
load_config(cf) ==
    IF cf = <<>> \/ ~Parses(cf[1]) THEN default_config ELSE cf[1]

\* the level names getattr(logging, name) resolves to a level
LoggingLevels == {"DEBUG", "INFO", "WARNING", "ERROR", "CRITICAL"}

\* _setup_logging raises when logging has no attribute of the level's name
setup_logging_raises(cfg) ==
    Get(cfg, "log_level", "INFO") \notin LoggingLevels

\* __init__ raises on a configuration that is no dict (config.get) or when
\* _setup_logging raises
init_raises(cfg) == ~IsObject(cfg) \/ setup_logging_raises(cfg)

\* __init__ reaches _load_state only past MemoryClient(config.get('mcp', {}))
init_loads_state(cfg) == IsObject(cfg)

\* evaluate_triggers raises on a state that is no dict, in _build_context on
\* a state without session_id, and in _check_budget on a configuration
\* without the budget keys
evaluate_triggers_raises(st, cfg, context_given) ==
    \/ ~IsObject(st)
    \/ ~context_given /\ "session_id" \notin DOMAIN st
    \/ "max_tokens_per_session" \notin DOMAIN cfg

\* get_stats raises on a state that is no dict and on a configuration
\* without the budget keys
get_stats_raises(st, cfg) ==
    ~IsObject(st) \/ "max_tokens_per_session" \notin DOMAIN cfg

get_stats(st, cfg, reg) ==
    [tokens_used |-> Get(st, "tokens_used", 0),
     tokens_budget |-> cfg.max_tokens_per_session,
     tokens_remaining |-> cfg.max_tokens_per_session
                            - Get(st, "tokens_used", 0),
     triggers_fired |-> Len(Get(st, "triggers_fired", <<>>)),
     detectors_registered |-> Len(reg),
     detectors_enabled |-> Len(get_enabled_detectors(reg))]

\* str.upper() of the query types
upper(query_type) ==
    CASE query_type = "keyword_search" -> "KEYWORD_SEARCH"
      [] query_type = "entity_details" -> "ENTITY_DETAILS"
      [] query_type = "project_context" -> "PROJECT_CONTEXT"
      [] query_type = "threshold_check" -> "THRESHOLD_CHECK"
      [] query_type = "mock_query" -> "MOCK_QUERY"
      [] OTHER -> query_type

\* the s[:n] of a list
Slice(s, n) == SubSeq(s, 1, IF Len(s) < n THEN Len(s) ELSE n)

\* the entities format_result lists at most
max_entities == 5

\* the observations format_result lists per entity at most
max_observations == 3

\* the lines of the observations of one entity; * stands for the bullet
observation_lines(observations) ==
    [j \in 1..Len(observations) |-> "  * " \o observations[j]]

\* the line of an entity followed by those of its first observations
entity_lines(entity) ==
    <<"\n- [" \o Get(entity, "entityType", "unknown") \o "] "
          \o Get(entity, "name", "Unknown")>>
    \o observation_lines(
           Slice(Get(entity, "observations", <<>>), max_observations))

\* the lines of the entities, in order
RECURSIVE entities_lines(_)
entities_lines(entities) ==
    IF entities = <<>> THEN <<>>
    ELSE entity_lines(Head(entities)) \o entities_lines(Tail(entities))

\* format_result that lists every entity of the result
format_result_untruncated(t, memory_result) ==
    IF \/ memory_result = <<>>
       \/ Get(memory_result[1], "entities", <<>>) = <<>>
    THEN <<"[" \o upper(t.query_type) \o "] No relevant memory found">>
    ELSE <<"[" \o upper(t.query_type) \o " TRIGGER]",
           "Reason: " \o t.reason, "", "Relevant Memory:">>
         \o entities_lines(memory_result[1].entities)
         \o <<"\n[Token cost: ~" \o ToString(t.estimated_tokens) \o "]">>

\* format_result: the lines it joins with a newline; memory_result is <<>>
\* for None, else <<d>> for the dict d. The fixed message when there is no
\* result or it has no entities, else the listing
format_result(t, memory_result) ==
    IF \/ memory_result = <<>>
       \/ Get(memory_result[1], "entities", <<>>) = <<>>
    THEN <<"[" \o upper(t.query_type) \o "] No relevant memory found">>
    ELSE <<"[" \o upper(t.query_type) \o " TRIGGER]",
           "Reason: " \o t.reason, "", "Relevant Memory:">>
         \o entities_lines(Slice(memory_result[1].entities, max_entities))
         \o <<"\n[Token cost: ~" \o ToString(t.estimated_tokens) \o "]">>

KnownQueryTypes ==
    {"keyword_search", "entity_details", "project_context", "threshold_check"}

\* a call of a client query method: search_nodes takes the query string,
\* open_nodes the list of names
ClientCall(method, query, names) ==
    [method |-> method, query |-> query, names |-> names]

\* the routing of query_memory without the availability check
query_memory_calls_unchecked(t, available) ==
    IF t.query_type = "keyword_search"
    THEN <<ClientCall("search_nodes", Get(t.query_params, "query", ""), <<>>)>>
    ELSE IF t.query_type = "entity_details"
    THEN <<ClientCall("open_nodes", "", Get(t.query_params, "names", <<>>))>>
    ELSE IF t.query_type = "project_context"
    THEN <<ClientCall("search_nodes",
                      "project:" \o Get(t.query_params, "project", ""), <<>>)>>
    ELSE IF t.query_type = "threshold_check"
    THEN <<ClientCall("search_nodes",
                      "status:pending OR status:incomplete", <<>>)>>
    ELSE <<>>

\* the routing of query_memory with a final else that searches for the
\* query parameter
query_memory_calls_fallback(t, available) ==
    IF ~available THEN <<>>
    ELSE IF t.query_type = "keyword_search"
    THEN <<ClientCall("search_nodes", Get(t.query_params, "query", ""), <<>>)>>
    ELSE IF t.query_type = "entity_details"
    THEN <<ClientCall("open_nodes", "", Get(t.query_params, "names", <<>>))>>
    ELSE IF t.query_type = "project_context"
    THEN <<ClientCall("search_nodes",
                      "project:" \o Get(t.query_params, "project", ""), <<>>)>>
    ELSE IF t.query_type = "threshold_check"
    THEN <<ClientCall("search_nodes",
                      "status:pending OR status:incomplete", <<>>)>>
    ELSE <<ClientCall("search_nodes", Get(t.query_params, "query", ""), <<>>)>>

\* the client query calls query_memory(t) issues, in order: none when
\* is_available() answered false, else the one its query_type routes to
query_memory_calls(t, available) ==
    IF ~available THEN <<>>
    ELSE IF t.query_type = "keyword_search"
    THEN <<ClientCall("search_nodes", Get(t.query_params, "query", ""), <<>>)>>
    ELSE IF t.query_type = "entity_details"
    THEN <<ClientCall("open_nodes", "", Get(t.query_params, "names", <<>>))>>
    ELSE IF t.query_type = "project_context"
    THEN <<ClientCall("search_nodes",
                      "project:" \o Get(t.query_params, "project", ""), <<>>)>>
    ELSE IF t.query_type = "threshold_check"
    THEN <<ClientCall("search_nodes",
                      "status:pending OR status:incomplete", <<>>)>>
    ELSE <<>>

\* query_memory without the try/except around the routed call
query_memory_returns_uncaught(t, available, res, st) ==
    IF query_memory_calls(t, available) = <<>>
    THEN [returned |-> <<>>, raised |-> FALSE]
    ELSE IF res.kind = "raise" THEN [returned |-> <<>>, raised |-> TRUE]
    ELSE IF res.kind = "none" THEN [returned |-> <<>>, raised |-> FALSE]
    ELSE IF Truthy(res) /\ record_trigger_raises(st)
    THEN [returned |-> <<>>, raised |-> TRUE]
    ELSE IF res.kind = "malformed" THEN [returned |-> <<>>, raised |-> TRUE]
    ELSE [returned |-> <<res>>, raised |-> FALSE]

\* what query_memory(t) hands back: returned is <<>> for None, and the
\* except clause turns every exception of the routed call, of
\* _record_trigger and of len(result.get('entities', [])) in the log call
\* after it into None; res is what the routed client call does
query_memory_returns(t, available, res, st) ==
    IF query_memory_calls(t, available) = <<>>
    THEN [returned |-> <<>>, raised |-> FALSE]
    ELSE IF res.kind = "raise" THEN [returned |-> <<>>, raised |-> FALSE]
    ELSE IF res.kind = "none" THEN [returned |-> <<>>, raised |-> FALSE]
    ELSE IF Truthy(res) /\ record_trigger_raises(st)
    THEN [returned |-> <<>>, raised |-> FALSE]
    ELSE IF res.kind = "malformed" THEN [returned |-> <<>>, raised |-> FALSE]
    ELSE [returned |-> <<res>>, raised |-> FALSE]

---------------------------------------------------------------------------
TypeOK ==
    /\ config = [max_tokens_per_session |-> MaxBudget]
    /\ nextSid \in 1..(MaxSessions + 1)
    /\ Len(state.triggers_fired) <= MaxFired
    /\ Len(file) <= 1
    /\ Len(pending) <= 1
    /\ Len(other) <= 1
    /\ disciplined \in BOOLEAN
    /\ saves \in Nat

Init ==
    /\ config = [max_tokens_per_session |-> MaxBudget]
    /\ registry = <<>>
    /\ state = load_state_fresh(1)
    /\ file = <<>>
    /\ nextSid = 2
    /\ pending = <<>>
    /\ disciplined = TRUE
    /\ other = <<>>
    /\ saves = 0
    /\ config_file = <<[max_tokens_per_session |-> MaxBudget]>>
    /\ client = MemoryClient
    /\ now = 0
    /\ registered = <<>>
    /\ active_project_file = <<>>
    /\ last = [op |-> "init"]

\* the constructor raised: there is no engine to call
Constructed == ~(last.op = "new" /\ last.raised)

\* MemoryTriggerEngine(): the next invocation, a new process on the same
\* configuration and state paths; when the constructor raises before
\* _load_state the state variable keeps the value it had
NewEngine ==
    LET cfg == load_config(config_file)
        loads == init_loads_state(cfg)
        fresh == loads /\ needs_new_session(file)
    IN /\ fresh => nextSid <= MaxSessions
       /\ config' = cfg
       /\ registry' = <<>>
       /\ registered' = <<>>
       /\ client' = MemoryClient
       /\ state' = IF loads THEN load_state(file, nextSid) ELSE state
       /\ nextSid' = IF fresh THEN nextSid + 1 ELSE nextSid
       /\ pending' = <<>>
       /\ last' = [op |-> "new", before |-> state, raised |-> init_raises(cfg)]
       /\ UNCHANGED <<file, disciplined, other, saves, config_file, now,
        active_project_file>>

\* register_detector(detector)
RegisterDetector ==
    \E d \in DetectorPool :
        /\ Constructed
        /\ registry' = register(registry, d)
        /\ last' = [op |-> "register", detector |-> d]
        /\ UNCHANGED <<config, state, file, nextSid, pending, disciplined,
                       other, saves, config_file, client, now, registered,
                       active_project_file>>

EnabledNames(reg) ==
    { get_enabled_detectors(reg)[i].name :
        i \in 1..Len(get_enabled_detectors(reg)) }

\* evaluate_triggers that charges the estimate of the result it returns
state_after_evaluate_charged(st, result) ==
    IF result = <<>> THEN st
    ELSE SetTokensUsed(st, Get(st, "tokens_used", 0)
                             + result[1].estimated_tokens)

\* self.state after evaluate_triggers returned result: the method reads the
\* state in _build_context and _check_budget and assigns nothing
state_after_evaluate(st, result) == st

\* evaluate_triggers(prompt, context): would[n] is what detector n's
\* evaluate does for this prompt and context; context_given tells whether the
\* caller passed a context or left it None
EvaluateTriggersStep(context_given, would) ==
    LET raises == evaluate_triggers_raises(state, config, context_given)
        r == IF raises THEN [result |-> <<>>, evaluated |-> <<>>]
             ELSE evaluate_triggers(registry, would, state, config)
    IN /\ Constructed
       /\ pending' = r.result
       /\ state' = state_after_evaluate(state, r.result)
       /\ last' = [op |-> "evaluate", would |-> would,
                   evaluated |-> r.evaluated, result |-> r.result,
                   raised |-> raises]
       /\ UNCHANGED <<config, registry, file, nextSid, disciplined,
                      other, saves, config_file, client, now, registered,
                      active_project_file>>

\* evaluate_triggers(prompt), as main() calls it
EvaluateTriggers ==
    \E would \in [EnabledNames(registry) -> EvaluateOutcomes] :
        EvaluateTriggersStep(FALSE, would)

\* query_memory that records only results longer than the shortest dict
query_memory_records_long(t, available, res) ==
    /\ available
    /\ t.query_type \in KnownQueryTypes
    /\ res.kind = "dict" /\ res.len > 7

\* whether query_memory(t) reaches _record_trigger: available is what
\* is_available() answers, res what the routed client call does
query_memory_records(t, available, res) ==
    /\ available
    /\ t.query_type \in KnownQueryTypes
    /\ Truthy(res)

\* query_memory(trigger_result) past the is_available() call: available is
\* what is_available() answered, res what the routed client call does
QueryMemoryStep(t, available, res) ==
    LET reaches == query_memory_records(t, available, res)
        records == reaches /\ ~record_trigger_raises(state)
        st == record_trigger(state, t, estimate_tokens(res))
        out == query_memory_returns(t, available, res, state)
    IN /\ Constructed
       /\ records => Len(state.triggers_fired) < MaxFired
       /\ (reaches /\ ~records) => Get(state, "tokens_used", 0) <= MaxBudget
       /\ state' = IF records THEN st
                   ELSE IF reaches
                        THEN record_trigger_partial(state, estimate_tokens(res))
                        ELSE state
       /\ file' = IF records THEN save_state(st, file) ELSE file
       /\ saves' = IF records THEN saves + 1 ELSE saves
       /\ disciplined' = (disciplined /\ pending = <<t>>)
       /\ pending' = <<>>
       /\ last' = [op |-> "query", trigger |-> t, available |-> available,
                   res |-> res, recorded |-> records, before |-> state,
                   calls |-> query_memory_calls(t, available),
                   returned |-> out.returned, raised |-> out.raised]
       /\ UNCHANGED <<config, registry, nextSid, other, config_file, now,
                      registered,
                      active_project_file>>

\* query_memory(trigger_result), whatever the availability cache holds
QueryMemory ==
    \E t \in TriggerResults, available \in BOOLEAN, res \in ClientOutcomes :
        /\ QueryMemoryStep(t, available, res)
        /\ UNCHANGED client

\* _record_trigger(trigger_result, actual_tokens) called directly, as the
\* tests do
RecordTrigger ==
    \E t \in TriggerResults, actual_tokens \in { n \div 4 : n \in JsonLens } :
        LET st == record_trigger(state, t, actual_tokens)
        IN /\ Constructed
           /\ Len(state.triggers_fired) < MaxFired
           /\ state' = st
           /\ file' = save_state(st, file)
           /\ saves' = saves + 1
           /\ disciplined' = FALSE
           /\ last' = [op |-> "record", trigger |-> t, tokens |-> actual_tokens,
                       recorded |-> TRUE, before |-> state]
           /\ UNCHANGED <<config, registry, nextSid, pending, other,
                          config_file, client, now, registered,
                          active_project_file>>

Next ==
    \/ NewEngine
    \/ RegisterDetector
    \/ EvaluateTriggers
    \/ QueryMemory
    \/ RecordTrigger

\* strictly sequential invocations: one engine at a time
Spec == Init /\ [][Next]_vars

---------------------------------------------------------------------------
(* A second invocation that overlaps the first on the same state file *)

\* MemoryTriggerEngine() in the second process: _load_state
OtherNewEngine ==
    /\ file = <<>> => nextSid <= MaxSessions
    /\ other' = <<load_state(file, nextSid)>>
    /\ nextSid' = IF file = <<>> THEN nextSid + 1 ELSE nextSid
    /\ last' = [op |-> "other_new"]
    /\ UNCHANGED <<config, registry, state, file, pending, disciplined, saves,
                   config_file, client, now, registered,
                   active_project_file>>

\* query_memory in the second process, for a query that returns a result:
\* _record_trigger and _save_state
OtherQueryMemory ==
    \E t \in TriggerResults, res \in ClientOutcomes :
        LET st == record_trigger(other[1], t, estimate_tokens(res))
        IN /\ other # <<>>
           /\ query_memory_records(t, TRUE, res)
           /\ Len(other[1].triggers_fired) < MaxFired
           /\ other' = <<st>>
           /\ file' = save_state(st, file)
           /\ saves' = saves + 1
           /\ last' = [op |-> "other_query", trigger |-> t, res |-> res,
                       recorded |-> TRUE]
           /\ UNCHANGED <<config, registry, state, nextSid, pending,
                          disciplined, config_file, client, now, registered,
                          active_project_file>>

NextOverlap ==
    \/ NewEngine
    \/ QueryMemory
    \/ OtherNewEngine
    \/ OtherQueryMemory

\* two invocations whose load, record and save steps interleave
SpecOverlap == Init /\ [][NextOverlap]_vars

---------------------------------------------------------------------------
(* Engines constructed from arbitrary configuration and state files *)

\* what the configuration file can hold: nothing (<<>>), text that is not
\* JSON, a JSON list, an object without the budget section, a complete
\* object, and an object whose logging level names no level
ConfigFiles ==
    { <<>>, <<Unparsable>>, <<JsonArray>>, <<EmptyDict>>,
      <<[max_tokens_per_session |-> MaxBudget]>>,
      <<[max_tokens_per_session |-> MaxBudget, log_level |-> "VERBOSE"]>> }

\* what the state file can hold: nothing, text that is not JSON, a JSON
\* list, objects lacking some of the keys, and a complete state
StateFiles ==
    { <<>>, <<Unparsable>>, <<JsonArray>>, <<EmptyDict>>,
      <<[tokens_used |-> 0, triggers_fired |-> <<>>]>>,
      <<[session_id |-> 0, triggers_fired |-> <<>>]>>,
      <<[session_id |-> 0, tokens_used |-> 0]>>,
      <<load_state_fresh(0)>> }

\* the state after MemoryTriggerEngine() ran on the two files; state is the
\* empty dict when the constructor raised before _load_state
InitFiles ==
    /\ config_file \in ConfigFiles
    /\ file \in StateFiles
    /\ config = load_config(config_file)
    /\ registry = <<>>
    /\ state = IF init_loads_state(config) THEN load_state(file, 1)
               ELSE EmptyDict
    /\ nextSid = IF init_loads_state(config) /\ needs_new_session(file)
                 THEN 2 ELSE 1
    /\ pending = <<>>
    /\ disciplined = TRUE
    /\ other = <<>>
    /\ saves = 0
    /\ client = MemoryClient
    /\ now = 0
    /\ registered = <<>>
    /\ active_project_file = <<>>
    /\ last = [op |-> "new", before |-> EmptyDict,
               raised |-> init_raises(config)]

\* evaluate_triggers(prompt, context) with or without a context
EvaluateTriggersAnyContext ==
    \E context_given \in BOOLEAN,
       would \in [EnabledNames(registry) -> EvaluateOutcomes] :
        EvaluateTriggersStep(context_given, would)

\* the memory_result handed to format_result: None, a dict with no
\* entities and one with an entity
MemoryResults ==
    { <<>>,
      <<[entities |-> <<>>]>>,
      <<[entities |-> <<[name |-> "Entity1", entityType |-> "test",
                         observations |-> <<"Obs 1.1">>]>>]>> }

\* format_result(trigger_result, memory_result)
FormatResult ==
    \E t \in TriggerResults, memory_result \in MemoryResults :
        /\ Constructed
        /\ last' = [op |-> "format", raised |-> FALSE,
                    returned |-> format_result(t, memory_result)]
        /\ UNCHANGED <<config, registry, state, file, nextSid, pending,
                       disciplined, other, saves, config_file, client, now,
                       registered,
                       active_project_file>>

\* get_stats()
GetStats ==
    /\ Constructed
    /\ last' = [op |-> "stats", raised |-> get_stats_raises(state, config),
                returned |-> IF get_stats_raises(state, config) THEN <<>>
                             ELSE <<get_stats(state, config, registry)>>]
    /\ UNCHANGED <<config, registry, state, file, nextSid, pending,
                   disciplined, other, saves, config_file, client, now,
                   registered,
                   active_project_file>>

NextFiles ==
    \/ NewEngine
    \/ EvaluateTriggersAnyContext
    \/ QueryMemory
    \/ FormatResult
    \/ GetStats

\* the public entry points on engines built from any pair of files
SpecFiles == InitFiles /\ [][NextFiles]_vars

---------------------------------------------------------------------------
(* query_memory on trigger results of every query type *)

\* query_params dicts: empty, and with every key
QueryParams ==
    { EmptyDict,
      [query |-> "jwt", names |-> <<"auth.py">>, project |-> "repo"] }

QueryTypes == KnownQueryTypes \cup {"mock_query"}

\* the trigger results a caller can hand to query_memory
QueryTriggers ==
    { [triggered |-> TRUE, estimated_tokens |-> 2, query_type |-> qt,
       query_params |-> qp, reason |-> "reason"] :
        qt \in QueryTypes, qp \in QueryParams }

\* what the routed client call does: returns None, raises, returns the empty
\* dict or the longest one
QueryOutcomes ==
    { o \in ClientOutcomes : o.kind = "dict" => o.len \in {2, 12} }

\* query_memory(trigger_result) for any trigger result
QueryMemoryAny ==
    \E t \in QueryTriggers, available \in BOOLEAN, res \in QueryOutcomes :
        /\ QueryMemoryStep(t, available, res)
        /\ UNCHANGED client

NextQuery ==
    \/ NewEngine
    \/ QueryMemoryAny

SpecQuery == Init /\ [][NextQuery]_vars

---------------------------------------------------------------------------
(* query_memory on every response of the memory server *)

\* a response of the server that is truthy and serializes, but whose
\* entities cannot be counted
MalformedResponse == [kind |-> "malformed", len |-> 12]

\* query_memory(trigger_result) on a well-formed or malformed response
QueryMemoryResponses ==
    \E t \in QueryTriggers, available \in BOOLEAN,
       res \in QueryOutcomes \cup {MalformedResponse} :
        /\ QueryMemoryStep(t, available, res)
        /\ UNCHANGED client

NextResponses ==
    \/ NewEngine
    \/ QueryMemoryResponses

SpecResponses == Init /\ [][NextResponses]_vars

---------------------------------------------------------------------------
(* The MemoryClient on its own *)

\* latest time.time() of the model, in seconds
MaxNow == 120

\* most memory-server operations one client issues
MaxIssued == 3

\* how far time.time() moves between two calls
ClockSteps == {59, 60}

\* time passes
Tick ==
    \E d \in ClockSteps :
        /\ now + d <= MaxNow
        /\ now' = now + d
        /\ UNCHANGED <<config, registry, state, file, nextSid, pending,
                       disciplined, other, saves, config_file, client,
                       registered, last,
                       active_project_file>>

\* client.is_available()
IsAvailable ==
    \E probe \in ReadResults :
        LET a == is_available(client, now, probe)
        IN /\ a.probed => client.issued < MaxIssued
           /\ client' = a.client
           /\ last' = [op |-> "is_available", now |-> now, before |-> client,
                       probed |-> a.probed, returned |-> a.returned]
           /\ UNCHANGED <<config, registry, state, file, nextSid, pending,
                          disciplined, other, saves, config_file, now,
                          registered,
                          active_project_file>>

\* one of the read operations of the client
ReadOperation(method) ==
    \E run \in TransportRuns :
        LET r == read_operation(run)
        IN /\ client.issued < MaxIssued
           /\ client' = [client EXCEPT !.issued = @ + 1]
           /\ last' = [op |-> "read", method |-> method, run |-> run,
                       result |-> r.result, attempts |-> r.attempts,
                       sleeps |-> r.sleeps]
           /\ UNCHANGED <<config, registry, state, file, nextSid, pending,
                          disciplined, other, saves, config_file, now,
                          registered,
                          active_project_file>>

\* client.search_nodes(query)
SearchNodes == ReadOperation("search_nodes")

\* client.open_nodes(names)
OpenNodes == ReadOperation("open_nodes")

\* client.read_graph()
ReadGraph == ReadOperation("read_graph")

NextClient ==
    \/ Tick
    \/ IsAvailable
    \/ SearchNodes
    \/ OpenNodes
    \/ ReadGraph

SpecClient == Init /\ [][NextClient]_vars

---------------------------------------------------------------------------
(* One invocation after the other, each as main() runs it; the            *)
(* format_result call that ends main() only prints and is left out        *)

\* load_detectors(engine) registers before anything is evaluated
MainLoadDetectors ==
    /\ last.op \in {"init", "new", "register"}
    /\ RegisterDetector

\* trigger_result = engine.evaluate_triggers(prompt)
MainEvaluateTriggers ==
    /\ last.op \in {"init", "new", "register"}
    /\ EvaluateTriggers

\* memory_result = engine.query_memory(trigger_result), reached only with a
\* trigger result: is_available() on the engine's client, then the routed
\* call on the same client
MainQueryMemory ==
    \E probe \in ReadResults, res \in ReadResults :
        LET a == is_available(client, now, probe)
        IN /\ last.op = "evaluate"
           /\ pending # <<>>
           /\ QueryMemoryStep(pending[1], a.returned, res)
           /\ client' =
                [a.client EXCEPT !.issued =
                    @ + Len(query_memory_calls(pending[1], a.returned))]

NextMain ==
    \/ NewEngine
    \/ MainLoadDetectors
    \/ MainEvaluateTriggers
    \/ MainQueryMemory

SpecMain == Init /\ [][NextMain]_vars

---------------------------------------------------------------------------
(* The DetectorRegistry on its own *)

\* most register calls between two clears
MaxRegistered == 4

\* detectors with equal and with different priorities, two instances for
\* each of two names, one of them disabled
RegistryPool ==
    { [name |-> "keyword", priority |-> 1, enabled |-> TRUE],
      [name |-> "keyword", priority |-> 2, enabled |-> TRUE],
      [name |-> "project_switch", priority |-> 1, enabled |-> TRUE],
      [name |-> "project_switch", priority |-> 2, enabled |-> FALSE],
      [name |-> "entity_mention", priority |-> 1, enabled |-> TRUE],
      [name |-> "token_threshold", priority |-> 2, enabled |-> TRUE] }

list_detectors(reg) == [i \in 1..Len(reg) |-> reg[i].name]

\* registry.register(detector)
Register ==
    \E d \in RegistryPool :
        /\ Len(registered) < MaxRegistered
        /\ registry' = register(registry, d)
        /\ registered' = Append(registered, d)
        /\ last' = [op |-> "register", detector |-> d]
        /\ UNCHANGED <<config, state, file, nextSid, pending, disciplined,
                       other, saves, config_file, client, now,
                       active_project_file>>

\* registry.clear()
Clear ==
    /\ registry' = <<>>
    /\ registered' = <<>>
    /\ last' = [op |-> "clear"]
    /\ UNCHANGED <<config, state, file, nextSid, pending, disciplined, other,
                   saves, config_file, client, now,
                   active_project_file>>

\* registry.list_detectors()
ListDetectors ==
    /\ last' = [op |-> "list_detectors", returned |-> list_detectors(registry)]
    /\ UNCHANGED <<config, registry, state, file, nextSid, pending,
                   disciplined, other, saves, config_file, client, now,
                   registered,
                   active_project_file>>

\* registry.get_enabled_detectors()
GetEnabledDetectors ==
    /\ last' = [op |-> "get_enabled_detectors",
                returned |-> get_enabled_detectors(registry)]
    /\ registry' = detectors_after_get_enabled(registry)
    /\ UNCHANGED <<config, state, file, nextSid, pending, disciplined,
                   other, saves, config_file, client, now, registered,
                   active_project_file>>

NextRegistry ==
    \/ Register
    \/ Clear
    \/ ListDetectors
    \/ GetEnabledDetectors

SpecRegistry == Init /\ [][NextRegistry]_vars

---------------------------------------------------------------------------
(* load_detectors of scripts/memory_trigger.py: registration from the      *)
(* detectors section of the configuration                                  *)

\* the config keys load_detectors looks at, in the order of its four blocks
DetectorKeys ==
    <<"project_switch", "keyword", "entity_mention", "token_threshold">>

\* a key of the detectors section no block of load_detectors looks at
UnknownKey == "nonexistent_detector"

\* the name property of the detector class a key's block constructs
detector_name(key) == key \o "_detector"

\* MemoryDetector.__init__(config)
MemoryDetector(name, detector_config) ==
    [name |-> name,
     priority |-> Get(detector_config, "priority", 999),
     enabled |-> Get(detector_config, "enabled", TRUE)]

\* what the import and the constructor call of one block do
LoadOutcomes == {"ok", "import_error", "constructor_error"}

\* the blocks without their try/except: the first failing import or
\* constructor leaves load_detectors with the exception
RECURSIVE load_blocks_uncaught(_, _, _, _)
load_blocks_uncaught(reg, detector_config, keys, outcomes) ==
    IF keys = <<>> THEN [registry |-> reg, raised |-> FALSE]
    ELSE IF ~Get(Get(detector_config, Head(keys), EmptyDict), "enabled", FALSE)
    THEN load_blocks_uncaught(reg, detector_config, Tail(keys), outcomes)
    ELSE IF outcomes[Head(keys)] # "ok"
    THEN [registry |-> reg, raised |-> TRUE]
    ELSE load_blocks_uncaught(
             register(reg, MemoryDetector(detector_name(Head(keys)),
                                          detector_config[Head(keys)])),
             detector_config, Tail(keys), outcomes)

\* the blocks of load_detectors for the keys, in order: a block runs when
\* its key's config has a true enabled, and registers the detector unless
\* the import or the constructor raised, which the block catches
RECURSIVE load_blocks(_, _, _, _)
load_blocks(reg, detector_config, keys, outcomes) ==
    IF keys = <<>> THEN [registry |-> reg, raised |-> FALSE]
    ELSE IF ~Get(Get(detector_config, Head(keys), EmptyDict), "enabled", FALSE)
    THEN load_blocks(reg, detector_config, Tail(keys), outcomes)
    ELSE IF outcomes[Head(keys)] # "ok"
    THEN load_blocks(reg, detector_config, Tail(keys), outcomes)
    ELSE load_blocks(
             register(reg, MemoryDetector(detector_name(Head(keys)),
                                          detector_config[Head(keys)])),
             detector_config, Tail(keys), outcomes)

\* load_detectors(engine, config): nothing when the registry already holds
\* a detector
load_detectors(reg, cfg, outcomes) ==
    IF Len(reg) > 0 THEN [registry |-> reg, raised |-> FALSE]
    ELSE load_blocks(reg, Get(cfg, "detectors", EmptyDict), DetectorKeys,
                     outcomes)

\* the priorities a detector's config gives
ConfigPriorities == {1, 2}

\* what the detectors section holds for one key
DetectorConfigs ==
    { [enabled |-> FALSE, priority |-> 1] }
    \cup { [enabled |-> TRUE, priority |-> p] : p \in ConfigPriorities }

\* the detectors sections: each of the four keys absent, disabled or
\* enabled, the unknown key absent or enabled
DetectorSections ==
    UNION { [keys -> DetectorConfigs] :
              keys \in SUBSET (Range(DetectorKeys) \cup {UnknownKey}) }

LoadConfigFiles ==
    { <<[max_tokens_per_session |-> MaxBudget, detectors |-> section]>> :
        section \in { s \in DetectorSections :
                        UnknownKey \in DOMAIN s => s[UnknownKey].enabled } }

InitLoad ==
    /\ config_file \in LoadConfigFiles
    /\ config = load_config(config_file)
    /\ registry = <<>>
    /\ state = load_state_fresh(1)
    /\ file = <<>>
    /\ nextSid = 2
    /\ pending = <<>>
    /\ disciplined = TRUE
    /\ other = <<>>
    /\ saves = 0
    /\ client = MemoryClient
    /\ now = 0
    /\ registered = <<>>
    /\ active_project_file = <<>>
    /\ last = [op |-> "init"]

\* load_detectors(engine, engine.config) as main() calls it, once on the
\* engine it has just constructed
LoadDetectors ==
    \E outcomes \in [Range(DetectorKeys) -> LoadOutcomes] :
        LET loaded == load_detectors(registry, config, outcomes)
        IN /\ last.op \in {"init", "new"}
           /\ Constructed
           /\ registry' = loaded.registry
           /\ last' = [op |-> "load_detectors", outcomes |-> outcomes,
                       before |-> registry, raised |-> loaded.raised]
           /\ UNCHANGED <<config, state, file, nextSid, pending, disciplined,
                          other, saves, config_file, client, now, registered,
                          active_project_file>>

NextLoad ==
    \/ NewEngine
    \/ LoadDetectors

SpecLoad == InitLoad /\ [][NextLoad]_vars

---------------------------------------------------------------------------
(* The ProjectTracker (scripts/project_tracker.py) and the                 *)
(* ProjectSwitchDetector that compares each observed project with the one  *)
(* the tracker holds. Of the tracker's state only the project is kept:    *)
(* has_uncommitted_changes, last_checkpoint and updated_at are written     *)
(* with it and read by no modelled decision.                               *)

\* a remote URL is the sequence of its characters, with the scheme prefix
\* held as one element; <<>> is the empty string
GitSuffix == <<".", "g", "i", "t">>

RemoteUrls ==
    { <<>>,
      <<"https://", "h", "/", "r">> \o GitSuffix,
      <<"http://", "h", "/", "r">> \o GitSuffix,
      <<"http://", "h", "/", "r">>,
      <<"https://", "h", "/", "o">> \o GitSuffix }

AbsolutePaths == {"/w/a", "/w/b"}

Branches == {"main", "feature-1", "feature-2"}

\* the name the metadata collector gives the project of a directory
ProjectName(path) == IF path = "/w/a" THEN "a" ELSE "b"

\* ProjectMetadata
Projects ==
    { [name |-> ProjectName(p), absolute_path |-> p, git_remote_url |-> u,
       git_branch |-> b] :
        p \in AbsolutePaths, u \in RemoteUrls, b \in Branches }

\* str.rstrip(chars): drops every trailing character that is in chars
RECURSIVE rstrip(_, _)
rstrip(s, chars) ==
    IF s # <<>> /\ s[Len(s)] \in chars
    THEN rstrip(SubSeq(s, 1, Len(s) - 1), chars)
    ELSE s

\* str.replace('http://', 'https://')
replace_http(s) ==
    [i \in 1..Len(s) |-> IF s[i] = "http://" THEN "https://" ELSE s[i]]

\* the remote_x_clean of projects_match
remote_clean(url) == replace_http(rstrip(url, Range(GitSuffix)))

\* str(Path(p).resolve()): the paths of the model are absolute and hold no
\* symlink, no '..' and no trailing slash, which is all resolve() rewrites
path_resolved(p) == p

\* projects_match that compares the remote URLs as they are
projects_match_exact(project_a, project_b) ==
    IF project_a.git_remote_url # <<>> /\ project_b.git_remote_url # <<>>
    THEN \/ project_a.git_remote_url = project_b.git_remote_url
         \/ project_a.absolute_path = project_b.absolute_path
    ELSE /\ project_a.absolute_path # ""
         /\ project_b.absolute_path # ""
         /\ path_resolved(project_a.absolute_path)
              = path_resolved(project_b.absolute_path)

\* ProjectTracker.projects_match
projects_match(project_a, project_b) ==
    IF project_a.git_remote_url # <<>> /\ project_b.git_remote_url # <<>>
    THEN \/ remote_clean(project_a.git_remote_url)
              = remote_clean(project_b.git_remote_url)
         \/ project_a.absolute_path = project_b.absolute_path
    ELSE /\ project_a.absolute_path # ""
         /\ project_b.absolute_path # ""
         /\ path_resolved(project_a.absolute_path)
              = path_resolved(project_b.absolute_path)

\* get_active_project that answers with a state for a missing file
get_active_project_placeholder(f) ==
    IF f = <<>> \/ ~Parses(f[1])
    THEN <<[project |-> CHOOSE p \in Projects : TRUE]>>
    ELSE f

\* ProjectTracker.get_active_project: None (<<>>) when the file is missing
\* or json.load rejects it, else its content
get_active_project(f) ==
    IF f = <<>> \/ ~Parses(f[1]) THEN <<>> ELSE f

\* set_active_project that leaves an existing file alone
set_active_project_keep(f, project_metadata) ==
    IF f = <<>> THEN <<[project |-> project_metadata]>> ELSE f

\* ProjectTracker.set_active_project: the new state over the file (mode 'w')
set_active_project(f, project_metadata) ==
    <<[project |-> project_metadata]>>

\* ProjectTracker.detect_switch: has_switched and the active state
detect_switch(f, current_project) ==
    LET active_state == get_active_project(f)
    IN IF active_state = <<>>
       THEN [has_switched |-> FALSE, active_state |-> <<>>]
       ELSE [has_switched |->
                 ~projects_match(current_project, active_state[1].project),
             active_state |-> active_state]

\* the detector's normalization of a remote URL: one trailing '.git'
\* removed, http:// rewritten to https://
normalize_remote(url) ==
    replace_http(
        IF Len(url) >= Len(GitSuffix)
           /\ SubSeq(url, Len(url) - Len(GitSuffix) + 1, Len(url)) = GitSuffix
        THEN SubSeq(url, 1, Len(url) - Len(GitSuffix))
        ELSE url)

\* major_branches when the detector's config does not set it
default_major_branches == {"main", "master", "develop", "development"}

\* ProjectSwitchDetector(config)
ProjectSwitchDetector(detector_config) ==
    [name |-> "project_switch_detector",
     priority |-> Get(detector_config, "priority", 1),
     enabled |-> Get(detector_config, "enabled", TRUE),
     detect_branch_switch |-> Get(detector_config, "detect_branch_switch", TRUE),
     major_branches |->
         Get(detector_config, "major_branches", default_major_branches)]

\* the comparison with the branch looked at before the remote
switch_type_branch_first(detector, old, new) ==
    IF old.absolute_path # new.absolute_path THEN "directory"
    ELSE IF /\ old.git_branch # new.git_branch
            /\ detector.detect_branch_switch
            /\ \/ old.git_branch \in detector.major_branches
               \/ new.git_branch \in detector.major_branches
    THEN "branch"
    ELSE IF normalize_remote(old.git_remote_url)
              # normalize_remote(new.git_remote_url)
    THEN "remote"
    ELSE "none"

\* the comparison that reports every change of branch, major or not
switch_type_any_branch(detector, old, new) ==
    IF old.absolute_path # new.absolute_path THEN "directory"
    ELSE IF normalize_remote(old.git_remote_url)
              # normalize_remote(new.git_remote_url)
    THEN "remote"
    ELSE IF old.git_branch # new.git_branch /\ detector.detect_branch_switch
    THEN "branch"
    ELSE "none"

\* the comparison of the tracked project with the current one, in its order
\* of precedence: directory, remote, branch; "none" when nothing switched
switch_type(detector, old, new) ==
    IF old.absolute_path # new.absolute_path THEN "directory"
    ELSE IF normalize_remote(old.git_remote_url)
              # normalize_remote(new.git_remote_url)
    THEN "remote"
    ELSE IF /\ old.git_branch # new.git_branch
            /\ detector.detect_branch_switch
            /\ \/ old.git_branch \in detector.major_branches
               \/ new.git_branch \in detector.major_branches
    THEN "branch"
    ELSE "none"

\* a confidence left as the boosts made it
cap_confidence_none(confidence) == confidence

\* the cap of a confidence at 1.0, in hundredths
cap_confidence(confidence) ==
    IF confidence > 100 THEN 100 ELSE confidence

\* the confidence of a switch, in hundredths: a directory switch is boosted
\* when the current project has a remote
switch_confidence(kind, new) ==
    IF kind = "directory"
    THEN cap_confidence(95 + (IF new.git_remote_url # <<>> THEN 5 ELSE 0))
    ELSE IF kind = "remote" THEN 90 ELSE 75

\* the TriggerResult of a detected switch, built from the current project
ProjectSwitchResult(kind, old, new) ==
    [triggered |-> TRUE,
     confidence |-> switch_confidence(kind, new),
     estimated_tokens |-> 200,
     query_type |-> "project_context",
     query_params |-> [project |-> new.name,
                       project_path |-> new.absolute_path,
                       git_remote |-> new.git_remote_url,
                       branch |-> new.git_branch,
                       switch_type |-> kind],
     reason |-> IF kind = "branch"
                THEN "Switched branch: " \o old.git_branch \o " -> "
                         \o new.git_branch
                ELSE IF kind = "remote" THEN "Changed git remote: " \o new.name
                ELSE "Switched projects: " \o old.name \o " -> " \o new.name]

\* ProjectSwitchDetector.evaluate(prompt, context) on the tracker file f:
\* what it returns, the file it leaves, the number of get_active_project
\* calls and the projects it handed to set_active_project, in order
project_switch_evaluate(detector, context, f) ==
    IF "current_project" \notin DOMAIN context
    THEN [returned |-> <<>>, file |-> f, get_calls |-> 0, set_calls |-> <<>>]
    ELSE LET current == context.current_project
             active_state == get_active_project(f)
             kind == IF active_state = <<>> THEN "none"
                     ELSE switch_type(detector, active_state[1].project,
                                      current)
         IN [returned |->
                 IF kind = "none" THEN <<>>
                 ELSE <<ProjectSwitchResult(kind, active_state[1].project,
                                            current)>>,
             file |-> set_active_project(f, current),
             get_calls |-> 1,
             set_calls |-> <<current>>]

\* the detector configurations: branch detection on or off, the default
\* major branches or a list of the deployment's own
ProjectSwitchConfigs ==
    { [enabled |-> TRUE, priority |-> 1, detect_branch_switch |-> d,
       major_branches |-> m] :
        d \in BOOLEAN,
        m \in {default_major_branches, {"feature-1"}} }

\* the contexts evaluate is called with
ProjectContexts ==
    { [session_id |-> 1] }
    \cup { [session_id |-> 1, current_project |-> p] : p \in Projects }

InitProject ==
    /\ config = [max_tokens_per_session |-> MaxBudget]
    /\ registry \in { <<ProjectSwitchDetector(c)>> : c \in ProjectSwitchConfigs }
    /\ state = load_state_fresh(1)
    /\ file = <<>>
    /\ nextSid = 2
    /\ pending = <<>>
    /\ disciplined = TRUE
    /\ other = <<>>
    /\ saves = 0
    /\ config_file = <<[max_tokens_per_session |-> MaxBudget]>>
    /\ client = MemoryClient
    /\ now = 0
    /\ registered = <<>>
    /\ active_project_file \in {<<>>, <<Unparsable>>}
    /\ last = [op |-> "init"]

\* detector.evaluate(prompt, context) of the registered
\* ProjectSwitchDetector; repeated tells that the call before it was an
\* evaluate with the same current project
ProjectSwitchEvaluate ==
    \E context \in ProjectContexts :
        LET done == project_switch_evaluate(registry[1], context,
                                            active_project_file)
        IN /\ active_project_file' = done.file
           /\ last' = [op |-> "project_switch_evaluate", context |-> context,
                       before |-> active_project_file,
                       returned |-> done.returned,
                       get_calls |-> done.get_calls,
                       set_calls |-> done.set_calls,
                       repeated |->
                           /\ last.op = "project_switch_evaluate"
                           /\ "current_project" \in DOMAIN context
                           /\ "current_project" \in DOMAIN last.context
                           /\ last.context.current_project
                                  = context.current_project]
           /\ UNCHANGED <<config, registry, state, file, nextSid, pending,
                          disciplined, other, saves, config_file, client,
                          now, registered>>

\* tracker.detect_switch(current_project)
DetectSwitch ==
    \E current_project \in Projects :
        /\ last' = [op |-> "detect_switch",
                    current_project |-> current_project,
                    returned |-> detect_switch(active_project_file,
                                               current_project)]
        /\ UNCHANGED <<config, registry, state, file, nextSid, pending,
                       disciplined, other, saves, config_file, client, now,
                       registered, active_project_file>>

\* tracker.clear_active_project()
ClearActiveProject ==
    /\ active_project_file # <<>>
    /\ active_project_file' = <<>>
    /\ last' = [op |-> "clear_active_project"]
    /\ UNCHANGED <<config, registry, state, file, nextSid, pending,
                   disciplined, other, saves, config_file, client, now,
                   registered>>

NextProject ==
    \/ ProjectSwitchEvaluate
    \/ DetectSwitch
    \/ ClearActiveProject

SpecProject == InitProject /\ [][NextProject]_vars

---------------------------------------------------------------------------
(* format_result and estimate_tokens on results of every size *)

\* most entities in a result of the memory server
MaxEntities == 6

\* most observations of an entity
MaxObservations == 4

\* entity i of a result, with k observations
Entity(i, k) ==
    [name |-> "Entity" \o ToString(i),
     entityType |-> "test",
     observations |->
         [j \in 1..k |-> "Obs " \o ToString(i) \o "." \o ToString(j)]]

\* the results of the memory server: n entities that have k observations
\* each, or 0, 1, 2, ... observations from one entity to the next
ListedResults ==
    { [entities |-> [i \in 1..n |-> Entity(i, k)]] :
        n \in 0..MaxEntities, k \in 0..MaxObservations }
    \cup { [entities |-> [i \in 1..n |-> Entity(i, i % (MaxObservations + 1))]] :
             n \in 1..MaxEntities }

\* the memory_result handed to format_result: None, the empty dict, a dict
\* with relations only, an entity without keys, and the results above
FormatInputs ==
    { <<>>, <<EmptyDict>>, <<[relations |-> <<>>]>>,
      <<[entities |-> <<EmptyDict>>]>> }
    \cup { <<r>> : r \in ListedResults }

\* format_result(trigger_result, memory_result) on these results
FormatListing ==
    \E t \in QueryTriggers, memory_result \in FormatInputs :
        /\ Constructed
        /\ last' = [op |-> "format", raised |-> FALSE, trigger |-> t,
                    memory_result |-> memory_result,
                    returned |-> format_result(t, memory_result)]
        /\ UNCHANGED <<config, registry, state, file, nextSid, pending,
                       disciplined, other, saves, config_file, client, now,
                       registered, active_project_file>>

\* the sum of the values of a function
RECURSIVE SumOf(_)
SumOf(f) ==
    IF DOMAIN f = {} THEN 0
    ELSE LET x == CHOOSE y \in DOMAIN f : TRUE
         IN f[x] + SumOf([y \in DOMAIN f \ {x} |-> f[y]])

\* len(json.dumps(s)) of a string that needs no escape: the quotes around it
json_len_string(s) == Len(s) + 2

\* len(json.dumps(l)) of a list whose items serialize to the lengths
\* item_lens: the brackets and a ", " between two items
json_len_list(item_lens) ==
    2 + SumOf(item_lens)
      + (IF Len(item_lens) > 1 THEN 2 * (Len(item_lens) - 1) ELSE 0)

\* len(json.dumps(d)) of a dict whose value under key k serializes to the
\* length value_lens[k]: the braces, the quoted key and ": " ahead of each
\* value, a ", " between two items
json_len_dict(value_lens) ==
    2 + SumOf([k \in DOMAIN value_lens |->
                  json_len_string(k) + 2 + value_lens[k]])
      + (IF Cardinality(DOMAIN value_lens) > 1
         THEN 2 * (Cardinality(DOMAIN value_lens) - 1) ELSE 0)

\* len(json.dumps(l)) of a list of strings
json_len_strings(l) ==
    json_len_list([i \in 1..Len(l) |-> json_len_string(l[i])])

\* len(json.dumps(entity)): name and entityType are strings, observations
\* a list of strings
json_len_entity(entity) ==
    json_len_dict([k \in DOMAIN entity |->
                      IF k = "observations"
                      THEN json_len_strings(entity[k])
                      ELSE json_len_string(entity[k])])

\* len(json.dumps(result)) of a result of the memory server: entities is a
\* list of entities, relations an empty list
json_dumps_len(result) ==
    json_len_dict([k \in DOMAIN result |->
                      IF k = "entities"
                      THEN json_len_list([i \in 1..Len(result[k]) |->
                                             json_len_entity(result[k][i])])
                      ELSE json_len_strings(result[k])])

\* what the client hands on for a memory_result: its kind and the length
\* of its serialization
ClientResult(memory_result) ==
    IF memory_result = <<>> THEN [kind |-> "none", len |-> 0]
    ELSE [kind |-> "dict", len |-> json_dumps_len(memory_result[1])]

\* client.estimate_tokens(result)
EstimateTokens ==
    \E memory_result \in FormatInputs :
        /\ Constructed
        /\ last' = [op |-> "estimate_tokens", result |-> memory_result,
                    returned |-> estimate_tokens(ClientResult(memory_result))]
        /\ UNCHANGED <<config, registry, state, file, nextSid, pending,
                       disciplined, other, saves, config_file, client, now,
                       registered, active_project_file>>

NextFormat ==
    \/ NewEngine
    \/ FormatListing
    \/ EstimateTokens

SpecFormat == Init /\ [][NextFormat]_vars

---------------------------------------------------------------------------
(* The read-only operations between the steps of main(): format_result,    *)
(* get_stats and registry.get_enabled_detectors                            *)

NextReadOnly ==
    \/ NewEngine
    \/ MainLoadDetectors
    \/ MainEvaluateTriggers
    \/ MainQueryMemory
    \/ FormatResult
    \/ GetStats
    \/ GetEnabledDetectors

SpecReadOnly == Init /\ [][NextReadOnly]_vars

---------------------------------------------------------------------------
(* The KeywordDetector. A prompt is the sequence of its words, which one   *)
(* space separates; the extraction of the query terms is left out: no      *)
(* modelled decision reads the query.                                      *)

\* the categories of the default keywords, in the order of their declaration
KeywordCategories == <<"memory", "decision", "architecture", "problem">>

\* the words the patterns of a category match
keywords ==
    [memory |-> {"remember", "recall"},
     decision |-> {"decided"},
     architecture |-> {"architecture", "pattern"},
     problem |-> {"bug"}]

\* a phrase of 53 characters, held as one word
LongPhrase == "the design we discussed last week for the new gateway"

\* the fence of a code block: three backquotes in a prompt, written here
\* with three quotes
CodeFence == "'''"

\* the words of the prompts
PromptWords ==
    {"Remember", "decided", "architecture", "bug", "?", CodeFence,
     LongPhrase}

\* most words in a prompt
MaxWords == 3

Prompts == UNION { [1..n -> PromptWords] : n \in 0..MaxWords }

\* str.lower() of a word: the patterns match without regard to case
lower(word) == IF word = "Remember" THEN "remember" ELSE word

\* len(prompt)
prompt_length(prompt) ==
    SumOf([i \in 1..Len(prompt) |-> Len(prompt[i])])
      + (IF Len(prompt) > 1 THEN Len(prompt) - 1 ELSE 0)

\* the prompt holds a code fence
looks_like_code(prompt) == \E i \in 1..Len(prompt) : prompt[i] = CodeFence

\* the position of the first word of the prompt a pattern of the category
\* matches, 0 when none does
match_position(category, prompt) ==
    LET hits == { i \in 1..Len(prompt) : lower(prompt[i]) \in keywords[category] }
    IN IF hits = {} THEN 0 ELSE CHOOSE i \in hits : \A j \in hits : i <= j

\* the category of the keyword that comes first in the prompt
first_match_in_text(categories, prompt) ==
    LET hits == { i \in 1..Len(categories) :
                    match_position(categories[i], prompt) > 0 }
    IN IF hits = {} THEN <<>>
       ELSE <<categories[CHOOSE i \in hits : \A j \in hits :
                 match_position(categories[i], prompt)
                     <= match_position(categories[j], prompt)]>>

\* the scan through the categories in their order: the first category with
\* a matching pattern, <<>> when no category matches
RECURSIVE first_match(_, _)
first_match(categories, prompt) ==
    IF categories = <<>> THEN <<>>
    ELSE IF match_position(Head(categories), prompt) > 0
    THEN <<Head(categories)>>
    ELSE first_match(Tail(categories), prompt)

\* the base confidence of a category, in hundredths
base_confidence(category) ==
    IF category = "memory" THEN 90
    ELSE IF category = "decision" THEN 85
    ELSE 75

\* the boost of a prompt longer than 50 characters, in hundredths
long_prompt_boost == 5

\* the confidence of a match, in hundredths, capped at 100
keyword_confidence(category, prompt) ==
    LET boosted == base_confidence(category)
                     + (IF \E i \in 1..Len(prompt) : prompt[i] = "?"
                        THEN 10 ELSE 0)
                     + (IF prompt_length(prompt) > 50
                        THEN long_prompt_boost ELSE 0)
    IN cap_confidence(boosted)

\* KeywordDetector.evaluate(prompt, context): <<>> for None
keyword_evaluate(prompt) ==
    IF prompt_length(prompt) < 5 THEN <<>>
    ELSE IF looks_like_code(prompt) THEN <<>>
    ELSE LET matched == first_match(KeywordCategories, prompt)
         IN IF matched = <<>> THEN <<>>
            ELSE <<[triggered |-> TRUE,
                    confidence |-> keyword_confidence(matched[1], prompt),
                    estimated_tokens |-> 150,
                    query_type |-> "keyword_search",
                    query_params |->
                        [category |-> matched[1],
                         matched_pattern |->
                             prompt[match_position(matched[1], prompt)]],
                    reason |-> "Keyword match: category=" \o matched[1]]>>

\* detector.evaluate(prompt, context) of the KeywordDetector on one of the
\* prompts
KeywordEvaluateOn(prompts) ==
    \E prompt \in prompts :
        /\ last' = [op |-> "keyword_evaluate", prompt |-> prompt,
                    returned |-> keyword_evaluate(prompt)]
        /\ UNCHANGED <<config, registry, state, file, nextSid, pending,
                       disciplined, other, saves, config_file, client, now,
                       registered, active_project_file>>

KeywordEvaluate == KeywordEvaluateOn(Prompts)

NextKeyword ==
    \/ KeywordEvaluate

SpecKeyword == Init /\ [][NextKeyword]_vars

---------------------------------------------------------------------------
(* The confidences of the two detectors *)

\* the prompts of a keyword, with and without a question mark and a long
\* phrase after it
BoostedPrompts ==
    { <<keyword>> \o question \o phrase :
          keyword \in {"Remember", "decided", "architecture", "bug"},
          question \in {<<>>, <<"?">>},
          phrase \in {<<>>, <<LongPhrase>>} }

KeywordEvaluateBoosted == KeywordEvaluateOn(BoostedPrompts)

NextConfidence ==
    \/ ProjectSwitchEvaluate
    \/ KeywordEvaluateBoosted

SpecConfidence == InitProject /\ [][NextConfidence]_vars

---------------------------------------------------------------------------
(* _retry_operation on operations that return or raise, for every          *)
(* retry_attempts and retry_backoff_seconds of the client's configuration  *)

\* most retry_attempts of a configuration
MaxAttempts == 3

\* the retry_backoff_seconds of the configurations
Backoffs == {0, 1, 2}

\* MemoryClient(config) with retry_attempts and retry_backoff_seconds set
MemoryClientOf(mcp_config) ==
    [cache |-> <<>>, cache_time |-> 0, issued |-> 0,
     retry_attempts |-> mcp_config.retry_attempts,
     retry_backoff |-> mcp_config.retry_backoff_seconds]

\* what one call of operation() does: it raises, or returns what
\* _call_mcp_tool returns, a result or None
OperationOutcomes ==
    { [kind |-> "raise", len |-> 0] }
    \cup { call_mcp_tool(transport) : transport \in TransportOutcomes }

InitRetry ==
    /\ config = [max_tokens_per_session |-> MaxBudget]
    /\ registry = <<>>
    /\ state = load_state_fresh(1)
    /\ file = <<>>
    /\ nextSid = 2
    /\ pending = <<>>
    /\ disciplined = TRUE
    /\ other = <<>>
    /\ saves = 0
    /\ config_file = <<[max_tokens_per_session |-> MaxBudget]>>
    /\ client \in { MemoryClientOf([retry_attempts |-> a,
                                    retry_backoff_seconds |-> b]) :
                        a \in 0..MaxAttempts, b \in Backoffs }
    /\ now = 0
    /\ registered = <<>>
    /\ active_project_file = <<>>
    /\ last = [op |-> "init"]

\* client._retry_operation(operation, operation_name): ops[k] is what the
\* k-th call of operation() would do
RetryOperation ==
    \E ops \in [1..(client.retry_attempts + 1) -> OperationOutcomes] :
        LET r == retry_operation(ops, client.retry_attempts,
                                 client.retry_backoff)
        IN /\ last' = [op |-> "retry_operation", ops |-> ops,
                       result |-> r.result, attempts |-> r.attempts,
                       sleeps |-> r.sleeps]
           /\ UNCHANGED <<config, registry, state, file, nextSid, pending,
                          disciplined, other, saves, config_file, client,
                          now, registered, active_project_file>>

NextRetry ==
    \/ RetryOperation

SpecRetry == InitRetry /\ [][NextRetry]_vars

---------------------------------------------------------------------------
(* Two evaluate_triggers calls side by side, on the same registry and      *)
(* state: the detectors report other confidences in the second, and the    *)
(* configuration holds another max_tokens_per_trigger                      *)

\* the max_tokens_per_trigger of the configurations
TriggerCaps == {1, default_max_tokens_per_trigger}

\* the confidences of the TriggerResults, in hundredths
Confidences == {50, 90}

\* what one call of detector.evaluate does, with the confidence of the
\* TriggerResult it returns
GatingOutcomes ==
    { [kind |-> "none", triggered |-> FALSE, estimated_tokens |-> 0,
       confidence |-> 0],
      [kind |-> "result", triggered |-> FALSE, estimated_tokens |-> 0,
       confidence |-> 0] }
    \cup { [kind |-> "result", triggered |-> TRUE, estimated_tokens |-> e,
            confidence |-> c] : e \in EstimatedTokens, c \in Confidences }

\* the state of a session that has recorded a trigger of that many tokens
StateCharged(tokens) ==
    IF tokens = 0 THEN load_state_fresh(1)
    ELSE record_trigger(load_state_fresh(1),
                        TriggerResult("detector_p1",
                                      [triggered |-> TRUE,
                                       estimated_tokens |-> 0]),
                        tokens)

InitGating ==
    /\ config \in { [max_tokens_per_session |-> MaxBudget,
                     max_tokens_per_trigger |-> cap] : cap \in TriggerCaps }
    /\ registry = <<>>
    /\ state \in { StateCharged(tokens) : tokens \in 0..(MaxBudget + 1) }
    /\ file = IF state.tokens_used = 0 THEN <<>> ELSE <<state>>
    /\ nextSid = 2
    /\ pending = <<>>
    /\ disciplined = TRUE
    /\ other = <<>>
    /\ saves = 0
    /\ config_file = <<config>>
    /\ client = MemoryClient
    /\ now = 0
    /\ registered = <<>>
    /\ active_project_file = <<>>
    /\ last = [op |-> "init"]

\* evaluate_triggers(prompt) in two runs: the second has the detectors
\* return other_would, which differs from would in confidences only, and
\* the configuration hold other_cap as max_tokens_per_trigger
EvaluatePair ==
    \E would \in [EnabledNames(registry) -> GatingOutcomes],
       other_would \in [EnabledNames(registry) -> GatingOutcomes],
       other_cap \in TriggerCaps :
        LET other_config == [config EXCEPT !.max_tokens_per_trigger = other_cap]
            run == evaluate_triggers(registry, would, state, config)
            other_run == evaluate_triggers(registry, other_would, state,
                                           other_config)
        IN /\ \A n \in EnabledNames(registry) :
                  [would[n] EXCEPT !.confidence = 0]
                      = [other_would[n] EXCEPT !.confidence = 0]
           /\ last' = [op |-> "evaluate_pair", would |-> would,
                       other_would |-> other_would, other_cap |-> other_cap,
                       result |-> run.result,
                       other_result |-> other_run.result]
           /\ UNCHANGED <<config, registry, state, file, nextSid, pending,
                          disciplined, other, saves, config_file, client,
                          now, registered, active_project_file>>

NextGating ==
    \/ RegisterDetector
    \/ EvaluatePair

SpecGating == InitGating /\ [][NextGating]_vars

---------------------------------------------------------------------------
(* projects_match on pairs of projects whose repository names end in       *)
(* characters of '.git'                                                    *)

\* repository names: r, t and rt
RepositoryNames == { <<"r">>, <<"t">>, <<"r", "t">> }

\* the remote URLs of those repositories, with either scheme, with and
\* without '.git', and the empty string
MatchUrls ==
    { <<>> }
    \cup { <<scheme, "h", "/">> \o repository \o suffix :
             scheme \in {"http://", "https://"},
             repository \in RepositoryNames,
             suffix \in {<<>>, GitSuffix} }

MatchProjects ==
    { [name |-> ProjectName(p), absolute_path |-> p, git_remote_url |-> u,
       git_branch |-> "main"] :
        p \in AbsolutePaths, u \in MatchUrls }

\* tracker.projects_match(project_a, project_b)
ProjectsMatch ==
    \E project_a \in MatchProjects, project_b \in MatchProjects :
        /\ last' = [op |-> "projects_match", project_a |-> project_a,
                    project_b |-> project_b,
                    returned |-> projects_match(project_a, project_b)]
        /\ UNCHANGED <<config, registry, state, file, nextSid, pending,
                       disciplined, other, saves, config_file, client, now,
                       registered, active_project_file>>

NextMatch ==
    \/ ProjectsMatch

SpecMatch == Init /\ [][NextMatch]_vars

---------------------------------------------------------------------------
(* Properties *)

\* the enabled detectors in the order evaluate_triggers visits them
Dets == get_enabled_detectors(registry)

max_tokens_per_session == config.max_tokens_per_session

\* detector i of Dets returns a triggered result in the last call
Triggers(i) ==
    /\ last.would[Dets[i].name].kind = "result"
    /\ last.would[Dets[i].name].triggered

\* the result of detector i of Dets fits the session budget
Fits(i) ==
    /\ Triggers(i)
    /\ state.tokens_used + last.would[Dets[i].name].estimated_tokens
         <= max_tokens_per_session

ResultOf(i) == <<TriggerResult(Dets[i].name, last.would[Dets[i].name])>>

Evaluated(i) == Dets[i].name \in Range(last.evaluated)

RECURSIVE SumTokens(_)
SumTokens(fired) ==
    IF fired = <<>> THEN 0 ELSE Head(fired).tokens + SumTokens(Tail(fired))

\* C1 as stated: of two enabled detectors that both trigger, the one with the
\* lower priority number has its result returned and the other is never
\* evaluated
C1_Original ==
    last.op = "evaluate" =>
        \A i, j \in 1..Len(Dets) :
            (Dets[i].priority < Dets[j].priority /\ Triggers(i) /\ Triggers(j))
                => (last.result = ResultOf(i) /\ ~Evaluated(j))

\* C1 amended: of two enabled detectors that both trigger, when the result of
\* the one with the lower priority number fits the session budget, the call
\* returns that result (or the result of a detector ahead of it) and the
\* other detector is never evaluated
C1_ShortCircuit ==
    last.op = "evaluate" =>
        \A i, j \in 1..Len(Dets) :
            (Dets[i].priority < Dets[j].priority /\ Fits(i) /\ Triggers(j))
                => /\ \E k \in 1..i : Fits(k) /\ last.result = ResultOf(k)
                   /\ ~Evaluated(j)

C1_Witness ==
    /\ last.op = "evaluate"
    /\ Len(Dets) = 2
    /\ Fits(1) /\ Triggers(2)
    /\ state.tokens_used > 0
    /\ last.result = ResultOf(1)

\* C2: evaluate_triggers returns r only if tokens_used + r.estimated_tokens
\* <= max_tokens_per_session; the result is that of the first detector in
\* order whose triggered result fits, and None when no triggered result fits
C2_BudgetAdmission ==
    last.op = "evaluate" =>
        LET fitting == { i \in 1..Len(Dets) : Fits(i) }
        IN /\ last.result # <<>> =>
                  state.tokens_used + last.result[1].estimated_tokens
                      <= max_tokens_per_session
           /\ IF fitting = {} THEN last.result = <<>>
              ELSE last.result =
                       ResultOf(CHOOSE i \in fitting : \A k \in fitting : i <= k)

\* a first candidate that is over budget is skipped and the second, which
\* fills the budget exactly, is returned
C2_Witness ==
    /\ last.op = "evaluate"
    /\ Len(Dets) = 2
    /\ Triggers(1) /\ ~Fits(1)
    /\ last.result = ResultOf(2)
    /\ state.tokens_used + last.result[1].estimated_tokens = max_tokens_per_session

C4_TokensEqualSum ==
    /\ state.tokens_used = SumTokens(state.triggers_fired)
    /\ file # <<>> => file[1].tokens_used = SumTokens(file[1].triggers_fired)

\* an engine that loaded two recorded triggers from the file
C4_Witness ==
    /\ last.op = "new"
    /\ Len(state.triggers_fired) = 2
    /\ state.tokens_used > state.triggers_fired[1].tokens
    /\ state.triggers_fired[1].tokens > 0

\* C5 as stated: while query_memory is only called with the result that
\* evaluate_triggers accepted, tokens_used stays within max_tokens_per_session
C5_Original ==
    disciplined => state.tokens_used <= max_tokens_per_session

\* C6: a detector that raises counts as no trigger: the next detector is
\* evaluated and the call returns the result of the first later detector
\* whose triggered result fits, None when there is none
C6_RaiseIsolated ==
    last.op = "evaluate" =>
        \A i \in 1..Len(Dets) :
            (Evaluated(i) /\ last.would[Dets[i].name].kind = "raise") =>
                LET later == { j \in (i + 1)..Len(Dets) : Fits(j) }
                IN /\ i < Len(Dets) => Evaluated(i + 1)
                   /\ IF later = {} THEN last.result = <<>>
                      ELSE last.result =
                               ResultOf(CHOOSE j \in later : \A k \in later : j <= k)

C6_Witness ==
    /\ last.op = "evaluate"
    /\ Len(Dets) = 2
    /\ last.would[Dets[1].name].kind = "raise"
    /\ last.result = ResultOf(2)

\* the entry query_memory records for the last query
RecordedEntry ==
    [detector |-> last.trigger.query_type,
     tokens |-> estimate_tokens(last.res),
     reason |-> last.trigger.reason]

\* the last query_memory call recorded RecordedEntry: one entry appended,
\* tokens_used raised by its tokens, the file overwritten with the new state
RecordedExactly ==
    /\ state.triggers_fired = Append(last.before.triggers_fired, RecordedEntry)
    /\ state.tokens_used = last.before.tokens_used + estimate_tokens(last.res)
    /\ state.session_id = last.before.session_id
    /\ file = <<state>>

\* the last operation was a query_memory whose client call was made
ClientQueried ==
    /\ last.op = "query"
    /\ last.available
    /\ last.trigger.query_type \in KnownQueryTypes

AccumulatesOnBefore ==
    /\ state.session_id = last.before.session_id
    /\ Len(state.triggers_fired) = Len(last.before.triggers_fired) + 1
    /\ SubSeq(state.triggers_fired, 1, Len(last.before.triggers_fired))
           = last.before.triggers_fired
    /\ state.tokens_used >= last.before.tokens_used

C9_TokensMonotone ==
    [][/\ state'.tokens_used >= state.tokens_used
       /\ file # <<>> =>
              (file' # <<>> /\ file'[1].tokens_used >= file[1].tokens_used)]_vars

\* a second write of the state file, by an engine that loaded the first
C9_Witness ==
    /\ last.op = "query" /\ last.recorded
    /\ Len(last.before.triggers_fired) = 1
    /\ state.tokens_used > last.before.tokens_used
    /\ saves = 2

\* C10: with overlapping invocations the last writer wins: after a write the
\* file holds exactly the writer's in-memory state, so it can hold fewer
\* triggers than were recorded and saved
C10_LastWriterWins ==
    /\ last.op = "other_query" => file = other
    /\ (last.op = "query" /\ last.recorded) => file = <<state>>
    /\ file # <<>> => Len(file[1].triggers_fired) <= saves

\* the lost update: the file holds the second invocation's state, which omits
\* a trigger the first invocation recorded and saved
C10_LostUpdate ==
    /\ last.op = "other_query"
    /\ file = other
    /\ state.triggers_fired # <<>>
    /\ state.session_id = other[1].session_id
    /\ Len(file[1].triggers_fired) < saves
    /\ state.triggers_fired[Len(state.triggers_fired)]
           \notin Range(file[1].triggers_fired)

---------------------------------------------------------------------------
(* Engines on arbitrary files, query routing, the client, main(), the registry *)

\* C11 as stated: on an engine constructed from any configuration and state
\* file contents, evaluate_triggers, query_memory, format_result and
\* get_stats return normally and never raise
C11_Original ==
    last.op \in {"evaluate", "query", "format", "stats"} => ~last.raised

\* C12: when is_available() answers false, query_memory returns None and
\* issues neither search_nodes nor open_nodes, and tokens_used,
\* triggers_fired and the state file stay as they were
C12_UnavailableNoQuery ==
    [][(last'.op = "query" /\ ~last'.available)
         => /\ last'.returned = <<>>
            /\ last'.calls = <<>>
            /\ state' = state
            /\ file' = file]_vars

\* an unavailable server met by a query that would have been recorded,
\* on a session that already has tokens charged
C12_Witness ==
    /\ last.op = "query"
    /\ ~last.available
    /\ last.trigger.query_type \in KnownQueryTypes
    /\ Truthy(last.res)
    /\ state.tokens_used > 0
    /\ file = <<state>>

\* C13: query_memory returns None and does not raise when the query_type is
\* none of the four known ones, in which case no client query is issued,
\* and when the client call raises
C13_NoneNotRaise ==
    last.op = "query" =>
        /\ last.trigger.query_type \notin KnownQueryTypes
             => (last.returned = <<>> /\ ~last.raised /\ last.calls = <<>>)
        /\ last.res.kind = "raise" => (last.returned = <<>> /\ ~last.raised)

\* the routed client call was issued and raised
C13_Witness ==
    /\ last.op = "query"
    /\ last.available
    /\ last.calls # <<>>
    /\ last.res.kind = "raise"
    /\ last.returned = <<>>

\* C14: with the server available, query_memory issues exactly the one
\* client query its query_type selects: keyword_search search_nodes(query),
\* entity_details open_nodes(names), project_context
\* search_nodes('project:' + project), threshold_check
\* search_nodes('status:pending OR status:incomplete'); any other type
\* issues none
C14_Routing ==
    (last.op = "query" /\ last.available) =>
        LET qt == last.trigger.query_type
            qp == last.trigger.query_params
        IN /\ qt = "keyword_search" =>
                last.calls = <<[method |-> "search_nodes",
                                query |-> Get(qp, "query", ""),
                                names |-> <<>>]>>
           /\ qt = "entity_details" =>
                last.calls = <<[method |-> "open_nodes", query |-> "",
                                names |-> Get(qp, "names", <<>>)]>>
           /\ qt = "project_context" =>
                last.calls = <<[method |-> "search_nodes",
                                query |-> "project:" \o Get(qp, "project", ""),
                                names |-> <<>>]>>
           /\ qt = "threshold_check" =>
                last.calls =
                    <<[method |-> "search_nodes",
                       query |-> "status:pending OR status:incomplete",
                       names |-> <<>>]>>
           /\ qt \notin {"keyword_search", "entity_details",
                         "project_context", "threshold_check"}
                => last.calls = <<>>

\* an entity_details trigger whose query_params hold a query, names and a
\* project was routed to open_nodes with the names
C14_Witness ==
    /\ last.op = "query"
    /\ last.available
    /\ last.trigger.query_type = "entity_details"
    /\ DOMAIN last.trigger.query_params = {"query", "names", "project"}
    /\ last.calls = <<[method |-> "open_nodes", query |-> "",
                       names |-> <<"auth.py">>]>>

\* C15: a call of is_available less than 60 seconds after the probe whose
\* answer is cached returns that answer without calling read_graph; the
\* first call on a new client and a call 60 seconds or more after the probe
\* call read_graph and replace the cached answer and its time
C15_CacheTtl ==
    last.op = "is_available" =>
        IF /\ last.before.cache # <<>>
           /\ last.now - last.before.cache_time < 60
        THEN /\ ~last.probed
             /\ last.returned = last.before.cache[1]
             /\ client = last.before
        ELSE /\ last.probed
             /\ client.cache = <<last.returned>>
             /\ client.cache_time = last.now
             /\ client.issued = last.before.issued + 1

\* a call exactly 60 seconds after the cached probe probed again and
\* replaced the cached answer by the opposite one
C15_Witness ==
    /\ last.op = "is_available"
    /\ last.before.cache # <<>>
    /\ last.now - last.before.cache_time = 60
    /\ last.probed
    /\ last.returned # last.before.cache[1]
    /\ client.cache = <<last.returned>>

\* C16 as stated: a read operation whose transport call times out or fails
\* is attempted again, up to retry_attempts more times, and returns None
\* only after all retry_attempts + 1 attempts have failed
C16_Original ==
    last.op = "read" =>
        LET oks == { k \in DOMAIN last.run : last.run[k].kind = "ok" }
            first == CHOOSE k \in oks : \A j \in oks : k <= j
        IN IF oks = {}
           THEN /\ last.attempts = retry_attempts + 1
                /\ last.result.kind = "none"
           ELSE /\ last.attempts = first
                /\ last.result = [kind |-> "dict", len |-> last.run[first].len]

\* C17 as stated: one invocation issues at most one memory-server
\* operation, and only when a trigger won; when evaluate_triggers returns
\* None the server is not contacted
C17_Original ==
    /\ client.issued <= 1
    /\ client.issued > 0 => (last.op = "query" /\ disciplined)
    /\ (last.op = "evaluate" /\ last.result = <<>>) => client.issued = 0

\* C17, amended: one invocation issues at most one memory query
\* (search_nodes or open_nodes), and only for the trigger that won; the
\* query_memory call that issues it first probes the server with one
\* read_graph, so the invocation issues one operation more than it issues
\* queries; outside query_memory the server is not contacted
C17_OneQueryAfterProbe ==
    /\ disciplined
    /\ last.op # "query" => client.issued = 0
    /\ last.op = "query" =>
        /\ Len(last.calls) <= 1
        /\ client.issued = 1 + Len(last.calls)
        /\ client.cache = <<last.available>>

\* the winning trigger's query followed the availability probe
C17_Witness ==
    /\ last.op = "query"
    /\ last.available
    /\ Len(last.calls) = 1
    /\ client.issued = 2

\* C18 as stated: engine construction never fails because of its files
C18_Original ==
    last.op = "new" => ~last.raised

\* the names registered since the last clear
RegisteredNames == { registered[k].name : k \in 1..Len(registered) }

\* the position in registered of the latest registration under name n
LastRegistered(n) ==
    CHOOSE k \in 1..Len(registered) :
        /\ registered[k].name = n
        /\ \A j \in (k + 1)..Len(registered) : registered[j].name # n

\* C19: after any sequence of register and clear calls the registry holds
\* at most one detector per name, the one held is the one most recently
\* registered under that name, and its size is the number of distinct names
\* registered since the last clear
C19_OnePerName ==
    /\ \A i, j \in 1..Len(registry) :
        registry[i].name = registry[j].name => i = j
    /\ \A i \in 1..Len(registry) :
        /\ registry[i].name \in RegisteredNames
        /\ registry[i] = registered[LastRegistered(registry[i].name)]
    /\ Len(registry) = Cardinality(RegisteredNames)

\* a name was registered twice with different detectors, next to another
\* name
C19_Witness ==
    /\ Len(registry) >= 2
    /\ \E i, j \in 1..Len(registered) :
        /\ i < j
        /\ registered[i].name = registered[j].name
        /\ registered[i] # registered[j]

\* the detector the registry holds under name n
Held(n) == get_detector(registry, n)[1]

\* a comes before b: lower priority number, or the same one and the earlier
\* latest registration
Before(a, b) ==
    \/ a.priority < b.priority
    \/ /\ a.priority = b.priority
       /\ LastRegistered(a.name) < LastRegistered(b.name)

\* C20: list_detectors and get_enabled_detectors enumerate the registered
\* detectors by non-decreasing priority, detectors of equal priority in the
\* order of their latest registration, so the registration sequence fixes
\* the order
C20_PriorityThenRegistration ==
    /\ last.op = "list_detectors" =>
        /\ Range(last.returned) = RegisteredNames
        /\ \A i, j \in 1..Len(last.returned) :
            i < j => Before(Held(last.returned[i]), Held(last.returned[j]))
    /\ last.op = "get_enabled_detectors" =>
        /\ Range(last.returned)
             = { Held(n) : n \in { m \in RegisteredNames : Held(m).enabled } }
        /\ \A i, j \in 1..Len(last.returned) :
            i < j => Before(last.returned[i], last.returned[j])

\* list_detectors on a registry with two detectors of equal priority, the
\* later of which was registered before the earlier one and then again
C20_Witness ==
    /\ last.op = "list_detectors"
    /\ \E i, j \in 1..Len(registry) :
        /\ i < j
        /\ registry[i].priority = registry[j].priority
        /\ \E k \in 1..Len(registered) :
            /\ k < LastRegistered(registry[i].name)
            /\ registered[k].name = registry[j].name

---------------------------------------------------------------------------
(* Registration from the configuration *)

\* the detectors section of the engine's configuration
detectors_section == Get(config, "detectors", EmptyDict)

\* the block of key ran to its register_detector call in the last
\* load_detectors
Loads(key) ==
    /\ key \in Range(DetectorKeys)
    /\ key \in DOMAIN detectors_section
    /\ detectors_section[key].enabled
    /\ last.outcomes[key] = "ok"

\* an enabled key's import or constructor raised in the last load_detectors
Fails(key) ==
    /\ key \in DOMAIN detectors_section
    /\ detectors_section[key].enabled
    /\ last.outcomes[key] # "ok"

---------------------------------------------------------------------------
(* The ProjectSwitchDetector and the ProjectTracker *)

\* the last operation was an evaluate whose context has a current_project
Observed ==
    /\ last.op = "project_switch_evaluate"
    /\ "current_project" \in DOMAIN last.context

\* the tracker file held a project when the last operation began
Tracked == last.before # <<>> /\ Parses(last.before[1])

OldProject == last.before[1].project

NewProject == last.context.current_project

\* the switch_type the last evaluate reported, "none" when it returned None
ReportedType ==
    IF last.returned = <<>> THEN "none"
    ELSE last.returned[1].query_params.switch_type

C23_FirstObservationSilent ==
    last.op = "project_switch_evaluate" =>
        /\ (Observed /\ ~Tracked) => last.returned = <<>>
        /\ ~Observed =>
               /\ last.returned = <<>>
               /\ last.get_calls = 0
               /\ last.set_calls = <<>>
               /\ active_project_file = last.before

\* a first observation on a tracker file that does not parse: None comes
\* back and the file now holds the observed project
C23_Witness ==
    /\ Observed
    /\ last.before = <<Unparsable>>
    /\ last.get_calls = 1
    /\ last.returned = <<>>
    /\ active_project_file[1].project = NewProject

\* C24: the reported switch_type follows the precedence directory, remote,
\* branch: it is directory whenever the paths differ, remote exactly when
\* the paths are equal and the normalized remotes differ, branch only when
\* paths and normalized remotes are equal; a call reports one result at most
C24_Precedence ==
    (Observed /\ Tracked) =>
        /\ Len(last.returned) <= 1
        /\ OldProject.absolute_path # NewProject.absolute_path
               <=> ReportedType = "directory"
        /\ ( /\ OldProject.absolute_path = NewProject.absolute_path
             /\ normalize_remote(OldProject.git_remote_url)
                  # normalize_remote(NewProject.git_remote_url) )
               <=> ReportedType = "remote"
        /\ ReportedType = "branch" =>
               /\ OldProject.absolute_path = NewProject.absolute_path
               /\ normalize_remote(OldProject.git_remote_url)
                    = normalize_remote(NewProject.git_remote_url)
        /\ ReportedType \in {"none", "directory", "remote", "branch"}

\* a remote switch reported although the branch changed too, between two
\* major-branch sides
C24_Witness ==
    /\ Observed
    /\ Tracked
    /\ ReportedType = "remote"
    /\ OldProject.git_branch = "main"
    /\ NewProject.git_branch = "feature-1"
    /\ registry[1].detect_branch_switch
    /\ "main" \in registry[1].major_branches

\* C25: with equal paths and equal normalized remotes evaluate triggers
\* exactly when the branch changed, detect_branch_switch is true and the old
\* or the new branch is a major branch, and then with switch_type branch
C25_BranchRule ==
    ( /\ Observed
      /\ Tracked
      /\ OldProject.absolute_path = NewProject.absolute_path
      /\ normalize_remote(OldProject.git_remote_url)
           = normalize_remote(NewProject.git_remote_url) ) =>
        /\ last.returned # <<>>
               <=> /\ OldProject.git_branch # NewProject.git_branch
                   /\ registry[1].detect_branch_switch
                   /\ \/ OldProject.git_branch \in registry[1].major_branches
                      \/ NewProject.git_branch \in registry[1].major_branches
        /\ ReportedType \in {"none", "branch"}

\* a change from feature-1 to feature-2 under the default major branches
\* with branch detection on: nothing is reported
C25_Witness ==
    /\ Observed
    /\ Tracked
    /\ OldProject.absolute_path = NewProject.absolute_path
    /\ OldProject.git_remote_url = NewProject.git_remote_url
    /\ OldProject.git_branch = "feature-1"
    /\ NewProject.git_branch = "feature-2"
    /\ registry[1].detect_branch_switch
    /\ registry[1].major_branches = default_major_branches
    /\ last.returned = <<>>

\* url without one trailing '.git'
WithoutGitSuffix(url) ==
    IF Len(url) >= 4 /\ url[Len(url) - 3] = "." /\ url[Len(url) - 2] = "g"
       /\ url[Len(url) - 1] = "i" /\ url[Len(url)] = "t"
    THEN SubSeq(url, 1, Len(url) - 4)
    ELSE url

\* two remote URLs that differ at most by a trailing '.git' and by the
\* scheme, http against https
SameRepository(u, v) ==
    /\ u # <<>> /\ v # <<>>
    /\ u[1] \in {"http://", "https://"}
    /\ v[1] \in {"http://", "https://"}
    /\ Tail(WithoutGitSuffix(u)) = Tail(WithoutGitSuffix(v))

\* C26: for two remote URLs that differ only by a trailing '.git' and/or by
\* http against https, evaluate reports no switch when paths and branches
\* are equal, and projects_match answers true (detect_switch reports no
\* switch) whatever the paths are
C26_RemoteUrlEquivalence ==
    /\ ( /\ Observed
         /\ Tracked
         /\ OldProject.absolute_path = NewProject.absolute_path
         /\ OldProject.git_branch = NewProject.git_branch
         /\ SameRepository(OldProject.git_remote_url,
                           NewProject.git_remote_url) )
           => last.returned = <<>>
    /\ ( /\ last.op = "detect_switch"
         /\ last.returned.active_state # <<>>
         /\ SameRepository(last.returned.active_state[1].project.git_remote_url,
                           last.current_project.git_remote_url) )
           => ~last.returned.has_switched

\* detect_switch on a project in another directory whose remote is the
\* tracked one without '.git' and with http for https: no switch
C26_Witness ==
    /\ last.op = "detect_switch"
    /\ last.returned.active_state # <<>>
    /\ last.returned.active_state[1].project.git_remote_url
         = <<"https://", "h", "/", "r", ".", "g", "i", "t">>
    /\ last.current_project.git_remote_url = <<"http://", "h", "/", "r">>
    /\ last.returned.active_state[1].project.absolute_path
         # last.current_project.absolute_path
    /\ ~last.returned.has_switched

---------------------------------------------------------------------------
(* format_result and the read-only operations *)

\* the last operation was a format_result whose inputs are on record
Formatted == last.op = "format" /\ "memory_result" \in DOMAIN last

\* the entities of the result handed to the last format_result
GivenEntities ==
    IF last.memory_result = <<>> THEN <<>>
    ELSE Get(last.memory_result[1], "entities", <<>>)

ObservationsOf(i) == Get(GivenEntities[i], "observations", <<>>)

Min(a, b) == IF a < b THEN a ELSE b

EntityLine(i) ==
    "\n- [" \o Get(GivenEntities[i], "entityType", "unknown") \o "] "
        \o Get(GivenEntities[i], "name", "Unknown")

ObservationLine(i, j) == "  * " \o ObservationsOf(i)[j]

\* the number of lines ahead of the line of entity i: the four heading lines
\* and, for each entity before it, its line and those of its first three
\* observations
RECURSIVE LinesBefore(_)
LinesBefore(i) ==
    IF i = 1 THEN 4
    ELSE LinesBefore(i - 1) + 1 + Min(3, Len(ObservationsOf(i - 1)))

\* C27: format_result returns the one line '[<QUERY_TYPE>] No relevant
\* memory found' when the result is None or has no entities; otherwise its
\* lines are the heading, then for each of the first min(5, n) entities, in
\* order, its line and the lines of its first min(3, k) observations, in
\* order, then the token cost; no line of a later entity or of a later
\* observation is in the output
C27_ListsFirstFiveAndThree ==
    Formatted =>
        IF GivenEntities = <<>>
        THEN last.returned
               = <<"[" \o upper(last.trigger.query_type)
                       \o "] No relevant memory found">>
        ELSE LET shown == Min(5, Len(GivenEntities))
             IN /\ Len(last.returned) = LinesBefore(shown + 1) + 1
                /\ \A i \in 1..shown :
                       /\ last.returned[LinesBefore(i) + 1] = EntityLine(i)
                       /\ \A j \in 1..Min(3, Len(ObservationsOf(i))) :
                              last.returned[LinesBefore(i) + 1 + j]
                                  = ObservationLine(i, j)
                       /\ \A j \in 4..Len(ObservationsOf(i)) :
                              ObservationLine(i, j) \notin Range(last.returned)
                /\ \A i \in (shown + 1)..Len(GivenEntities) :
                       /\ EntityLine(i) \notin Range(last.returned)
                       /\ \A j \in 1..Len(ObservationsOf(i)) :
                              ObservationLine(i, j) \notin Range(last.returned)

\* a result with six entities of four observations each: 4 heading lines,
\* 5 entities with 3 observations each, the token cost
C27_Witness ==
    /\ Formatted
    /\ Len(GivenEntities) = 6
    /\ \A i \in 1..6 : Len(ObservationsOf(i)) = 4
    /\ Len(last.returned) = 25
    /\ last.returned[5] = "\n- [test] Entity1"
    /\ last.returned[24] = "  * Obs 5.3"

\* C28: a step of format_result, get_stats or get_enabled_detectors leaves
\* the session state (session_id, tokens_used, triggers_fired), the
\* registry with its order, the client with its availability cache and its
\* count of memory-server operations, and the state file as they were
C28_ReadOnlyOperations ==
    [][ last'.op \in {"format", "stats", "get_enabled_detectors"} =>
            /\ state' = state
            /\ registry' = registry
            /\ client' = client
            /\ file' = file ]_vars

\* get_enabled_detectors on an engine that has charged tokens, saved its
\* state, cached the availability and holds a disabled detector next to an
\* enabled one: the disabled one is not returned and still registered
C28_Witness ==
    /\ last.op = "get_enabled_detectors"
    /\ state.tokens_used > 0
    /\ file = <<state>>
    /\ client.cache # <<>>
    /\ client.issued > 0
    /\ Len(registry) = 2
    /\ Len(last.returned) = 1

\* the length of the JSON text of the result handed to the last
\* estimate_tokens
SerializedLength == json_dumps_len(last.result[1])

\* C29: estimate_tokens(None) is 0; for any other result it is the length of
\* the result's JSON text divided by 4 and rounded down; it is never
\* negative, and two calls with the same result return the same value
C29_EstimateIsLengthDiv4 ==
    /\ [](last.op = "estimate_tokens" =>
            /\ last.returned >= 0
            /\ last.result = <<>> => last.returned = 0
            /\ last.result # <<>> =>
                   /\ 4 * last.returned <= SerializedLength
                   /\ SerializedLength < 4 * last.returned + 4)
    /\ [][ ( /\ last.op = "estimate_tokens"
             /\ last'.op = "estimate_tokens"
             /\ last'.result = last.result )
               => last'.returned = last.returned ]_vars

\* the result {"entities": [{"name": "Entity1", "entityType": "test",
\* "observations": ["Obs 1.1"]}]} has 86 characters: 21 tokens
C29_Witness ==
    /\ last.op = "estimate_tokens"
    /\ last.result = <<[entities |-> <<Entity(1, 1)>>]>>
    /\ SerializedLength = 86
    /\ last.returned = 21

---------------------------------------------------------------------------
(* The KeywordDetector *)

\* a pattern of the category matches the prompt of the last evaluate
CategoryMatches(category) ==
    \E i \in 1..Len(last.prompt) :
        lower(last.prompt[i]) \in keywords[category]

\* the place of a category in the declaration order
DeclaredAt(category) ==
    CASE category = "memory" -> 1
      [] category = "decision" -> 2
      [] category = "architecture" -> 3
      [] category = "problem" -> 4

\* C30: the category KeywordDetector reports is the first one, in the
\* declaration order memory, decision, architecture, problem, that has a
\* pattern matching the prompt: it matches, and no category declared ahead
\* of it does, wherever the keywords stand in the prompt and whatever the
\* base confidences are
C30_FirstDeclaredCategoryWins ==
    (last.op = "keyword_evaluate" /\ last.returned # <<>>) =>
        LET reported == last.returned[1].query_params.category
        IN /\ CategoryMatches(reported)
           /\ \A category \in DOMAIN keywords :
                  DeclaredAt(category) < DeclaredAt(reported)
                      => ~CategoryMatches(category)

\* a prompt whose first keyword is of the last category and which holds
\* keywords of memory and decision after it: memory is reported
C30_Witness ==
    /\ last.op = "keyword_evaluate"
    /\ last.prompt = <<"bug", "decided", "Remember">>
    /\ last.returned # <<>>
    /\ last.returned[1].query_params.category = "memory"

---------------------------------------------------------------------------
(* The confidences *)

\* C31: every TriggerResult the KeywordDetector or the ProjectSwitchDetector
\* returns has a confidence of 0 to 100 hundredths; a memory keyword with a
\* question mark and a long prompt (90 + 10 + boost) and a directory switch
\* to a project with a remote (95 + 5) have exactly 100
C31_ConfidenceWithinUnit ==
    (last.op \in {"keyword_evaluate", "project_switch_evaluate"}
        /\ last.returned # <<>>) =>
        /\ last.returned[1].confidence >= 0
        /\ last.returned[1].confidence <= 100
        /\ (/\ last.op = "keyword_evaluate"
            /\ last.returned[1].query_params.category = "memory"
            /\ \E i \in 1..Len(last.prompt) : last.prompt[i] = "?"
            /\ \E i \in 1..Len(last.prompt) : Len(last.prompt[i]) > 50)
               => last.returned[1].confidence = 100
        /\ (/\ last.op = "project_switch_evaluate"
            /\ last.returned[1].query_params.switch_type = "directory"
            /\ last.returned[1].query_params.git_remote # <<>>)
               => last.returned[1].confidence = 100

\* a memory keyword, a question mark and a long phrase: 105 before the cap
C31_Witness ==
    /\ last.op = "keyword_evaluate"
    /\ last.prompt = <<"Remember", "?", LongPhrase>>
    /\ last.returned # <<>>
    /\ last.returned[1].confidence = 100

---------------------------------------------------------------------------
(* _retry_operation *)

\* the invocations of the last _retry_operation that raised; invocation k
\* has attempt index k - 1
Raised == { k \in 1..last.attempts : last.ops[k].kind = "raise" }

\* C32 as stated: _retry_operation invokes the operation at most
\* retry_attempts + 1 times, returns the result of the first invocation that
\* does not raise without invoking it again, and returns None exactly when
\* all retry_attempts + 1 invocations raise
C32_Original ==
    last.op = "retry_operation" =>
        /\ last.attempts <= client.retry_attempts + 1
        /\ last.ops[last.attempts].kind # "raise" =>
               /\ last.result = last.ops[last.attempts]
               /\ \A k \in 1..(last.attempts - 1) : last.ops[k].kind = "raise"
        /\ last.result.kind = "none" <=>
               /\ last.attempts = client.retry_attempts + 1
               /\ Raised = 1..last.attempts

\* C33: in _retry_operation the attempt with index k that raises is followed
\* by one sleep of retry_backoff_seconds * 2^k when k < retry_attempts and by
\* none when k = retry_attempts; no sleep follows an attempt that returns:
\* the sleeps are those of the raising attempts another attempt follows, in
\* their order
C33_BackoffSchedule ==
    last.op = "retry_operation" =>
        LET retried == { k \in Raised : k - 1 < client.retry_attempts }
        IN /\ Len(last.sleeps) = Cardinality(retried)
           /\ retried = 1..Len(last.sleeps)
           /\ \A k \in retried :
                  last.sleeps[k] = client.retry_backoff * (2 ^ (k - 1))
           /\ \A k \in 1..last.attempts :
                  k \notin retried =>
                      /\ k = last.attempts
                      /\ \/ last.ops[k].kind # "raise"
                         \/ k - 1 = client.retry_attempts

\* three attempts raise and the fourth returns: sleeps of 2, 4 and 8
C33_Witness ==
    /\ last.op = "retry_operation"
    /\ client.retry_attempts = 3
    /\ client.retry_backoff = 2
    /\ Raised = {1, 2, 3}
    /\ last.result.kind = "dict"
    /\ last.sleeps = <<2, 4, 8>>

---------------------------------------------------------------------------
(* query_memory without a result *)

\* C34 as stated: whenever query_memory returns None, tokens_used,
\* triggers_fired and the state file are as they were before the call
C34_Original ==
    [][(last'.op = "query" /\ last'.returned = <<>>)
         => /\ state' = state
            /\ file' = file]_vars

---------------------------------------------------------------------------
(* evaluate_triggers *)

\* C35: evaluate_triggers leaves tokens_used, triggers_fired, session_id,
\* the registry and the state file as they were, whether it returns a result
\* or None; on a constructed engine only a step that reaches _record_trigger
\* (query_memory, or _record_trigger itself) changes the state or the file
C35_EvaluateChangesNothing ==
    [][/\ last'.op = "evaluate"
            => (state' = state /\ registry' = registry /\ file' = file)
       /\ ((state' # state \/ file' # file) /\ last'.op # "new")
            => (last'.op \in {"query", "record"} /\ last'.recorded)]_vars

\* evaluate_triggers returned a result on a session that has tokens charged
\* and saved
C35_Witness ==
    /\ last.op = "evaluate"
    /\ last.result # <<>>
    /\ last.result[1].estimated_tokens > 0
    /\ state.tokens_used > 0
    /\ file = <<state>>

---------------------------------------------------------------------------
(* The iteration of evaluate_triggers *)

\* the detectors of the registry with enabled set, in registry order
EnabledInOrder == SelectSeq(registry, LAMBDA d : d.enabled)

\* what the detector of that name does in the last call is no trigger: None,
\* or a result with triggered false
NoTrigger(name) ==
    \/ last.would[name].kind = "none"
    \/ last.would[name].kind = "result" /\ ~last.would[name].triggered

\* the detectors evaluated are the first of the enabled ones, each once and
\* in priority order, no disabled one is among them, and evaluation goes on
\* after a detector that returns None or an untriggered result
IteratesInOrder ==
    /\ Len(last.evaluated) <= Len(EnabledInOrder)
    /\ \A k \in 1..Len(last.evaluated) :
           last.evaluated[k] = EnabledInOrder[k].name
    /\ \A k, l \in 1..Len(last.evaluated) :
           k < l => /\ last.evaluated[k] # last.evaluated[l]
                    /\ EnabledInOrder[k].priority <= EnabledInOrder[l].priority
    /\ \A i \in 1..Len(registry) :
           ~registry[i].enabled => registry[i].name \notin Range(last.evaluated)
    /\ \A k \in 1..Len(last.evaluated) :
           (NoTrigger(last.evaluated[k]) /\ k < Len(EnabledInOrder))
               => Len(last.evaluated) > k

\* no enabled detector returns a triggered result in the last call
NoneTriggers ==
    \A i \in 1..Len(EnabledInOrder) :
        ~(/\ last.would[EnabledInOrder[i].name].kind = "result"
          /\ last.would[EnabledInOrder[i].name].triggered)

\* C36 as stated: in one evaluate_triggers call each enabled detector is
\* evaluated at most once and in priority order, a disabled one never, None
\* or an untriggered result lets evaluation continue, and when no detector
\* triggers every enabled detector has been evaluated exactly once and None
\* is returned
C36_Original ==
    last.op = "evaluate" =>
        /\ IteratesInOrder
        /\ NoneTriggers => /\ Len(last.evaluated) = Len(EnabledInOrder)
                           /\ last.result = <<>>

\* C36, amended: as stated when the budget gate at the head of
\* evaluate_triggers lets the call through; when it does not (tokens_used
\* above max_tokens_per_session) no detector is evaluated and None is
\* returned
C36_IterationPastGate ==
    last.op = "evaluate" =>
        /\ IteratesInOrder
        /\ IF state.tokens_used > max_tokens_per_session
           THEN last.evaluated = <<>> /\ last.result = <<>>
           ELSE NoneTriggers => /\ Len(last.evaluated) = Len(EnabledInOrder)
                                /\ last.result = <<>>

\* two enabled detectors: the first returns None, the
\* second an untriggered result: both were evaluated, None is returned
C36_Witness ==
    /\ last.op = "evaluate"
    /\ Len(EnabledInOrder) = 2
    /\ last.would[EnabledInOrder[1].name].kind = "none"
    /\ last.would[EnabledInOrder[2].name].kind = "result"
    /\ Len(last.evaluated) = 2
    /\ last.result = <<>>

---------------------------------------------------------------------------
(* Gating *)

\* C37: two evaluate_triggers runs on the same registry, state and
\* max_tokens_per_session, with the same triggered flags and
\* estimated_tokens, return the result of the same detector (or both None)
\* whatever the confidences of the candidates and the configured
\* max_tokens_per_trigger are in each
C37_ConfidenceAndCapIgnored ==
    last.op = "evaluate_pair" =>
        /\ (last.result = <<>>) <=> (last.other_result = <<>>)
        /\ last.result # <<>> =>
               last.result[1].reason = last.other_result[1].reason

\* the first detector's result costs more than the max_tokens_per_trigger of
\* one run and has the lower confidence in the other; both runs return it
C37_Witness ==
    /\ last.op = "evaluate_pair"
    /\ Len(EnabledInOrder) = 2
    /\ config.max_tokens_per_trigger = 1
    /\ last.other_cap = default_max_tokens_per_trigger
    /\ last.would[EnabledInOrder[1].name].triggered
    /\ last.would[EnabledInOrder[2].name].triggered
    /\ last.would[EnabledInOrder[1].name].estimated_tokens = 2
    /\ last.would[EnabledInOrder[1].name].confidence = 50
    /\ last.would[EnabledInOrder[2].name].confidence = 90
    /\ last.other_would[EnabledInOrder[1].name].confidence = 90
    /\ last.other_would[EnabledInOrder[2].name].confidence = 50
    /\ last.result # <<>>
    /\ last.result[1].reason = EnabledInOrder[1].name
    /\ last.other_result = last.result

---------------------------------------------------------------------------
(* Repeated observations *)

---------------------------------------------------------------------------
(* The remote rule of projects_match *)

\* C39 as stated: for two projects with different absolute paths,
\* projects_match answers true only if their remote URLs are the same once
\* one literal trailing '.git' is removed and http:// is rewritten to
\* https://: URLs of different repositories are never matched
C39_Original ==
    (/\ last.op = "projects_match"
     /\ last.project_a.absolute_path # last.project_b.absolute_path
     /\ last.returned)
        => SameRepository(last.project_a.git_remote_url,
                          last.project_b.git_remote_url)

====
